---- MODULE Spec2Model ----
(***************************************************************************)
(* A model of the SVD image compressor of src/svd.js: the power-iteration  *)
(* eigen-solver, SVD.decompose, the two reconstruction policies            *)
(* (getCompressData, getCompressSum) and ImageProcessor.compressImage,     *)
(* and of the compress button of src/app.js.                               *)
(*                                                                         *)
(* A JavaScript number is an IEEE-754 double, computed bit for bit; bytes, *)
(* lengths, indices and counts, which the program keeps exact, are         *)
(* integers.  A matrix is a sequence of rows (1-based where the source is  *)
(* 0-based).  Math.random belongs to the engine: the values it returns     *)
(* are chosen when a behaviour starts.                                     *)
(***************************************************************************)
EXTENDS Integers, Sequences, FiniteSets, TLC

\* ------------------------------------------------------------ numbers
\* A JavaScript number is an IEEE-754 binary64 value.  It is kept as the
\* record [s, e, m]: sign s, exponent e and the mantissa m as four limbs of
\* 14 bits, least significant first, of value (-1)^s * m * 2^e.  A normal
\* number has a mantissa of exactly 53 bits; a subnormal number and zero
\* have e = EMin; Infinity and NaN have the two exponents above EMax.
\* Every operation rounds to nearest, ties to even, as the engine does.
Base == 2 ^ 14

EMin == 0 - 1074

EMax == 1023 - 52

ZeroMant == <<0, 0, 0, 0>>

Zero == [s |-> 0, e |-> EMin, m |-> ZeroMant]

SignedZero(s) == [s |-> s, e |-> EMin, m |-> ZeroMant]

Infinity(s) == [s |-> s, e |-> EMax + 1, m |-> ZeroMant]

NaN == [s |-> 0, e |-> EMax + 2, m |-> ZeroMant]

IsNaN(x) == x.e = EMax + 2

IsInf(x) == x.e = EMax + 1

IsZero(x) == x.e = EMin /\ x.m = ZeroMant

IsFinite(x) == x.e <= EMax

Limb(P, i) == IF i >= 1 /\ i <= Len(P) THEN P[i] ELSE 0

RECURSIVE Combined(_, _, _, _, _)
\* the limbs from i on of X + k * Y + c, every limb but the last in
\* 0..Base-1; the last limb keeps what is left, sign included
Combined(X, Y, k, i, c) ==
    IF i >= Len(X) THEN <<X[i] + k * Limb(Y, i) + c>>
    ELSE <<(X[i] + k * Limb(Y, i) + c) % Base>>
             \o Combined(X, Y, k, i + 1, (X[i] + k * Limb(Y, i) + c) \div Base)

Carried(P, c) == Combined(P, <<>>, 0, 1, c)

RECURSIVE TopLimb(_, _)
TopLimb(P, i) == IF i = 0 THEN 0 ELSE IF P[i] # 0 THEN i ELSE TopLimb(P, i - 1)

RECURSIVE LimbBits(_)
LimbBits(x) == IF x = 0 THEN 0 ELSE 1 + LimbBits(x \div 2)

BitLenAt(P, t) == IF t = 0 THEN 0 ELSE 14 * (t - 1) + LimbBits(P[t])

BitLen(P) == BitLenAt(P, TopLimb(P, Len(P)))

ShiftRightLimb(P, k, i) ==
    (Limb(P, i + (k \div 14)) \div 2 ^ (k % 14))
        + (Limb(P, i + (k \div 14) + 1) % 2 ^ (k % 14)) * 2 ^ (14 - (k % 14))

ShiftRight4(P, k) ==
    <<ShiftRightLimb(P, k, 1), ShiftRightLimb(P, k, 2),
      ShiftRightLimb(P, k, 3), ShiftRightLimb(P, k, 4)>>

ShiftLeftLimb(P, k, i) ==
    (Limb(P, i - (k \div 14)) % 2 ^ (14 - (k % 14))) * 2 ^ (k % 14)
        + (Limb(P, i - (k \div 14) - 1) \div 2 ^ (14 - (k % 14)))

ShiftLeft4(P, k) ==
    <<ShiftLeftLimb(P, k, 1), ShiftLeftLimb(P, k, 2),
      ShiftLeftLimb(P, k, 3), ShiftLeftLimb(P, k, 4)>>

ShiftLeft8(P, k) ==
    ShiftLeft4(P, k) \o <<ShiftLeftLimb(P, k, 5), ShiftLeftLimb(P, k, 6),
                          ShiftLeftLimb(P, k, 7), ShiftLeftLimb(P, k, 8)>>

AnyBelow(P, k) ==
    \/ \E i \in 1..(k \div 14) : Limb(P, i) # 0
    \/ Limb(P, (k \div 14) + 1) % 2 ^ (k % 14) # 0

BitOf(P, k) == (Limb(P, (k \div 14) + 1) \div 2 ^ (k % 14)) % 2

Finite(s, e, M) == IF e > EMax THEN Infinity(s) ELSE [s |-> s, e |-> e, m |-> M]

RoundedUp(s, e, M) ==
    IF M = <<Base - 1, Base - 1, Base - 1, 2 ^ 11 - 1>>
    THEN Finite(s, e + 1, <<0, 0, 0, 2 ^ 10>>)
    ELSE Finite(s, e, Carried(M, 1))

\* the low `drop` bits of P are rounded away, to nearest, ties to even
PackDrop(s, e, P, sticky, drop) ==
    IF drop <= 0 THEN Finite(s, e + drop, ShiftLeft4(P, 0 - drop))
    ELSE IF BitOf(P, drop - 1) = 1
            /\ (sticky \/ AnyBelow(P, drop - 1) \/ BitOf(P, drop) = 1)
    THEN RoundedUp(s, e + drop, ShiftRight4(P, drop))
    ELSE Finite(s, e + drop, ShiftRight4(P, drop))

PackLen(s, e, P, sticky, len) ==
    IF len = 0 THEN SignedZero(s)
    ELSE PackDrop(s, e, P, sticky, IF len - 53 > EMin - e THEN len - 53 ELSE EMin - e)

\* the number nearest to (-1)^s * P * 2^e; sticky: bits below P were lost
Pack(s, e, P, sticky) == PackLen(s, e, P, sticky, BitLen(P))

FromNat(n) == Pack(0, 0, <<n % Base, (n \div Base) % Base, n \div (Base * Base)>>, FALSE)

FromInt(n) == IF n < 0 THEN [FromNat(0 - n) EXCEPT !.s = 1] ELSE FromNat(n)

Product(A, B) ==
    Carried(<<A[1] * B[1],
              A[1] * B[2] + A[2] * B[1],
              A[1] * B[3] + A[2] * B[2] + A[3] * B[1],
              A[1] * B[4] + A[2] * B[3] + A[3] * B[2] + A[4] * B[1],
              A[2] * B[4] + A[3] * B[3] + A[4] * B[2],
              A[3] * B[4] + A[4] * B[3],
              A[4] * B[4],
              0>>, 0)

\* a * b
Times(a, b) ==
    IF IsNaN(a) \/ IsNaN(b) THEN NaN
    ELSE IF IsInf(a) \/ IsInf(b)
    THEN (IF IsZero(a) \/ IsZero(b) THEN NaN ELSE Infinity((a.s + b.s) % 2))
    ELSE Pack((a.s + b.s) % 2, a.e + b.e, Product(a.m, b.m), FALSE)

\* -x
Neg(x) == IF IsNaN(x) THEN NaN ELSE [x EXCEPT !.s = 1 - @]

\* Math.abs
Abs(x) == IF IsNaN(x) THEN NaN ELSE [x EXCEPT !.s = 0]

\* the difference D = X - y came out negative: y was the larger operand
AddSigned(x, y, D) ==
    IF D[Len(D)] < 0
    THEN Pack(y.s, y.e, Combined(<<0, 0, 0, 0, 0, 0, 0, 0>>, D, 0 - 1, 1, 0), FALSE)
    ELSE Pack(IF BitLen(D) = 0 THEN 0 ELSE x.s, y.e, D, FALSE)

AddAligned(x, y, X) ==
    IF x.s = y.s
    THEN Pack(x.s, y.e, Combined(X, y.m, 1, 1, 0), FALSE)
    ELSE AddSigned(x, y, Combined(X, y.m, 0 - 1, 1, 0))

\* x.e >= y.e, both finite: beyond 55 bits y cannot change the rounding of x
AddOrdered(x, y) ==
    IF x.e - y.e > 55 THEN x
    ELSE AddAligned(x, y, ShiftLeft8(x.m, x.e - y.e))

\* a + b
Plus(a, b) ==
    IF IsNaN(a) \/ IsNaN(b) THEN NaN
    ELSE IF IsInf(a) THEN (IF IsInf(b) /\ a.s # b.s THEN NaN ELSE a)
    ELSE IF IsInf(b) THEN b
    ELSE IF a.e >= b.e THEN AddOrdered(a, b) ELSE AddOrdered(b, a)

\* a - b
Minus(a, b) == Plus(a, Neg(b))

RECURSIVE BigLessFrom(_, _, _)
BigLessFrom(X, Y, i) ==
    IF i = 0 THEN FALSE
    ELSE IF Limb(X, i) # Limb(Y, i) THEN Limb(X, i) < Limb(Y, i)
    ELSE BigLessFrom(X, Y, i - 1)

BigLess(X, Y) == BigLessFrom(X, Y, IF Len(X) > Len(Y) THEN Len(X) ELSE Len(Y))

\* the mantissa of a finite number other than 0 shifted to 53 bits
NormalShift(x) == 53 - BitLen(x.m)

RECURSIVE DigitFix(_, _, _)
\* R = q * D + r with the digit q too small by the number of times D still fits
DigitFix(R, D, q) ==
    IF BigLess(R, D) THEN [q |-> q, r |-> R]
    ELSE DigitFix(Combined(R, D, 0 - 1, 1, 0), D, q + 1)

DigitEst(R, D, est) ==
    DigitFix(Combined(<<0, R[1], R[2], R[3], R[4]>>, D, 0 - est, 1, 0), D, est)

\* the next 14 bits of the quotient: R < D, D of 53 bits
Digit(R, D) ==
    DigitEst(R, D, (R[4] * 2 ^ 18 + R[3] * 2 ^ 4 + (R[2] \div 2 ^ 10))
                       \div (D[4] * 2 ^ 4 + (D[3] \div 2 ^ 10) + 1))

Quot4(s, e, D, q0, d1, d2, d3, d4) ==
    Pack(s, e, <<d4.q, d3.q, d2.q, d1.q, q0>>, BitLen(d4.r) # 0)

Quot3(s, e, D, q0, d1, d2, d3) == Quot4(s, e, D, q0, d1, d2, d3, Digit(d3.r, D))

Quot2(s, e, D, q0, d1, d2) == Quot3(s, e, D, q0, d1, d2, Digit(d2.r, D))

Quot1(s, e, D, q0, d1) == Quot2(s, e, D, q0, d1, Digit(d1.r, D))

Quot0(s, e, D, q0) == Quot1(s, e, D, q0.q, Digit(q0.r, D))

\* N / D for mantissas of 53 bits, by long division in base 2^14
Quotient(s, e, N, D) == Quot0(s, e, D, DigitFix(N \o <<0>>, D, 0))

\* a / b
Over(a, b) ==
    IF IsNaN(a) \/ IsNaN(b) THEN NaN
    ELSE IF IsInf(a) THEN (IF IsInf(b) THEN NaN ELSE Infinity((a.s + b.s) % 2))
    ELSE IF IsInf(b) THEN SignedZero((a.s + b.s) % 2)
    ELSE IF IsZero(b) THEN (IF IsZero(a) THEN NaN ELSE Infinity((a.s + b.s) % 2))
    ELSE IF IsZero(a) THEN SignedZero((a.s + b.s) % 2)
    ELSE Quotient((a.s + b.s) % 2,
                  (a.e - NormalShift(a)) - (b.e - NormalShift(b)) - 56,
                  ShiftLeft4(a.m, NormalShift(a)), ShiftLeft4(b.m, NormalShift(b)))

RECURSIVE ISqrtBits(_, _, _)
\* floor(sqrt(n)) of a natural number, one bit at a time
ISqrtBits(n, r, bit) ==
    IF bit = 0 THEN r
    ELSE IF (r + bit) * (r + bit) <= n THEN ISqrtBits(n, r + bit, bit \div 2)
    ELSE ISqrtBits(n, r, bit \div 2)

RECURSIVE RootFix(_, _, _)
\* C = rem - (2 * R * Base + d) * d for the root limbs R found so far, the
\* digit d tried and the remainder rem: d is lowered while C < 0 and raised
\* while the next digit still fits
RootFix(R, d, C) ==
    IF C[Len(C)] < 0
    THEN RootFix(R, d - 1, Combined(C, <<0>> \o R, 2, 1, 2 * d - 1))
    ELSE IF Combined(C, <<0>> \o R, 0 - 2, 1, 0 - (2 * d + 1))[Len(C)] < 0
    THEN [root |-> <<d>> \o R, rem |-> C]
    ELSE RootFix(R, d + 1, Combined(C, <<0>> \o R, 0 - 2, 1, 0 - (2 * d + 1)))

RootEst(R, remP, d) == RootFix(R, d, Combined(remP, <<0>> \o R, 0 - 2 * d, 1, 0 - d * d))

RootTop(R, remP, remTop, divTop) ==
    RootEst(R, remP, IF (remTop * 2) \div ((divTop \div 2 ^ 13) + 1) > Base - 1
                     THEN Base - 1
                     ELSE (remTop * 2) \div ((divTop \div 2 ^ 13) + 1))

\* the next 14 bits of the root: r holds the limbs found and the remainder,
\* hi and lo are the next two limbs of the radicand
RootDigit(r, hi, lo, k) ==
    RootTop(r.root, <<lo, hi>> \o r.rem,
            Limb(r.rem, k - 1) + Limb(r.rem, k) * Base + Limb(r.rem, k + 1) * Base * Base
                + (IF k = 1 THEN hi ELSE 0),
            2 * (Limb(r.root, k - 1) + Limb(r.root, k) * Base))

RootPack(e, r) == Pack(0, e, r.root, BitLen(r.rem) # 0)

Root3(e, N, r) == RootPack(e, RootDigit(r, N[2], N[1], 3))

Root2(e, N, r) == Root3(e, N, RootDigit(r, N[4], N[3], 2))

Root1(e, N, r) == Root2(e, N, RootDigit(r, N[6], N[5], 1))

Root0(e, N, top) ==
    Root1(e, N, [root |-> <<top>>, rem |-> <<N[8] * Base + N[7] - top * top>>])

RootN(e, N) == Root0(e, N, ISqrtBits(N[8] * Base + N[7], 0, 2 ^ 13))

\* the root of M * 2^e, M of 53 bits: of M * 2^k with e - k even
RootOf(e, M, k) == RootN((e - k) \div 2, ShiftLeft8(M, k))

\* Math.sqrt
Sqrt(x) ==
    IF IsNaN(x) THEN NaN
    ELSE IF IsZero(x) THEN x
    ELSE IF x.s = 1 THEN NaN
    ELSE IF IsInf(x) THEN x
    ELSE RootOf(x.e - NormalShift(x), ShiftLeft4(x.m, NormalShift(x)),
                IF (x.e - NormalShift(x)) % 2 = 0 THEN 58 ELSE 59)

MagLess(a, b) == a.e < b.e \/ (a.e = b.e /\ BigLess(a.m, b.m))

\* a < b
Lt(a, b) ==
    /\ ~IsNaN(a)
    /\ ~IsNaN(b)
    /\ ~(IsZero(a) /\ IsZero(b))
    /\ IF a.s # b.s THEN a.s = 1
       ELSE IF a.s = 0 THEN MagLess(a, b) ELSE MagLess(b, a)

\* a > b
Gt(a, b) == Lt(b, a)

\* a === b
Eq(a, b) == ~IsNaN(a) /\ ~IsNaN(b) /\ (a = b \/ (IsZero(a) /\ IsZero(b)))

\* a <= b
Le(a, b) == Lt(a, b) \/ Eq(a, b)

\* a >= b
Ge(a, b) == Le(b, a)

\* Math.max of two numbers: NaN if either is, and +0 above -0
MaxOf(a, b) ==
    IF IsNaN(a) \/ IsNaN(b) THEN NaN
    ELSE IF Lt(a, b) THEN b
    ELSE IF Lt(b, a) THEN a
    ELSE IF a.s = 0 THEN a ELSE b

\* Math.min of two numbers: NaN if either is, and -0 below +0
MinOf(a, b) ==
    IF IsNaN(a) \/ IsNaN(b) THEN NaN
    ELSE IF Lt(a, b) THEN a
    ELSE IF Lt(b, a) THEN b
    ELSE IF a.s = 1 THEN a ELSE b

\* the whole part of |x| for a finite x with a fraction (x.e < 0)
Whole(x) == ShiftRight4(x.m, 0 - x.e)

HasFraction(x) == x.e < 0 /\ AnyBelow(x.m, 0 - x.e)

\* Number.isInteger
IsInteger(x) == IsFinite(x) /\ ~HasFraction(x)

\* Math.floor
Floor(x) ==
    IF ~IsFinite(x) \/ x.e >= 0 THEN x
    ELSE IF x.s = 1 /\ HasFraction(x) THEN Pack(1, 0, Carried(Whole(x), 1), FALSE)
    ELSE Pack(x.s, 0, Whole(x), FALSE)

\* Math.ceil
Ceil(x) ==
    IF ~IsFinite(x) \/ x.e >= 0 THEN x
    ELSE IF x.s = 0 /\ HasFraction(x) THEN Pack(0, 0, Carried(Whole(x), 1), FALSE)
    ELSE Pack(x.s, 0, Whole(x), FALSE)

\* Math.round: to the nearest integer, a tie towards +Infinity
Round(x) ==
    IF ~IsFinite(x) \/ x.e >= 0 THEN x
    ELSE IF BitOf(x.m, 0 - x.e - 1) = 1 /\ (x.s = 0 \/ AnyBelow(x.m, 0 - x.e - 1))
    THEN Pack(x.s, 0, Carried(Whole(x), 1), FALSE)
    ELSE Pack(x.s, 0, Whole(x), FALSE)

\* the value of a number that is an integer below 2^31 in size
ToInt(x) ==
    IF x.e >= 0
    THEN (1 - 2 * x.s) * (x.m[1] + x.m[2] * Base + x.m[3] * Base * Base) * 2 ^ x.e
    ELSE (1 - 2 * x.s) * (Whole(x)[1] + Whole(x)[2] * Base + Whole(x)[3] * Base * Base)

\* the decimal literal n / d of the source: the double nearest to it
Decimal(n, d) == Over(FromInt(n), FromInt(d))

One == FromInt(1)

\* 0.5
Half == Decimal(1, 2)

\* Math.min and Math.max of two lengths or counts
IntMin(a, b) == IF a < b THEN a ELSE b

IntMax(a, b) == IF a > b THEN a ELSE b

\* ------------------------------------------------------------ vectors
\* An array holds values: the sequence with the entries of f, each computed
\* once, when the array is built.
Array(f) == f \o << >>

RECURSIVE SumFrom(_, _)
\* s.reduce((sum, val) => sum + val, 0): the entries added in index order
SumFrom(s, k) == IF k = 0 THEN Zero ELSE Plus(SumFrom(s, k - 1), s[k])

SumSeq(s) == SumFrom(s, Len(s))

RECURSIVE SumSquares(_, _)
\* v.reduce((sum, val) => sum + val * val, 0) over the first k entries
SumSquares(v, k) ==
    IF k = 0 THEN Zero ELSE Plus(SumSquares(v, k - 1), Times(v[k], v[k]))

\* Math.sqrt(v.reduce((sum, val) => sum + val * val, 0))
Norm(v) == Sqrt(SumSquares(v, Len(v)))

\* ------------------------------------------------------------ matrices
\* matrix[i][j] of the source, 0-based there: undefined (NaN under
\* arithmetic) when row i has no entry j.
At(matrix, i, j) ==
    IF j <= Len(matrix[i]) THEN matrix[i][j] ELSE NaN

\* SVD.transpose: matrix[0].length throws a TypeError on an empty matrix.
transposeThrows(matrix) == matrix = << >>

transpose(matrix) ==
    Array([j \in 1..Len(matrix[1]) |-> Array([i \in 1..Len(matrix) |-> At(matrix, i, j)])])

RECURSIVE DotFrom(_, _, _, _, _)
\* sum over k of A[i][k] * B[k][j], in index order
DotFrom(A, B, i, j, k) ==
    IF k = 0 THEN Zero
    ELSE Plus(DotFrom(A, B, i, j, k - 1), Times(At(A, i, k), At(B, k, j)))

\* SVD.multiplyMatrices: A[0] or B[0] undefined, or a row B[k] with
\* k < colsA that does not exist, throws a TypeError.
multiplyMatricesThrows(A, B) ==
    \/ A = << >>
    \/ B = << >>
    \/ Len(B[1]) >= 1 /\ Len(A[1]) > Len(B)

multiplyMatrices(A, B) ==
    Array([i \in 1..Len(A) |->
              Array([j \in 1..Len(B[1]) |-> DotFrom(A, B, i, j, Len(A[1]))])])

RECURSIVE RowDot(_, _, _, _)
RowDot(matrix, vector, i, j) ==
    IF j = 0 THEN Zero
    ELSE Plus(RowDot(matrix, vector, i, j - 1), Times(At(matrix, i, j), vector[j]))

\* SVD.multiplyMatrixVector
multiplyMatrixVector(matrix, vector) ==
    Array([i \in 1..Len(matrix) |-> RowDot(matrix, vector, i, Len(vector))])

\* ------------------------------------------------------------ Math.random
\* rng is the sequence of the values Math.random() returns from now on; a
\* value drawn moves to the end, so that the sequence never runs out.
RandomValue(rng) == Head(rng)

RandomRest(rng) == Tail(rng) \o <<Head(rng)>>

RECURSIVE RandomVector(_, _)
\* for (i < n) v[i] = Math.random() - 0.5
RandomVector(rng, n) ==
    IF n = 0 THEN << >>
    ELSE <<Minus(RandomValue(rng), Half)>> \o RandomVector(RandomRest(rng), n - 1)

RECURSIVE RandomSkip(_, _)
\* Math.random after n draws
RandomSkip(rng, n) == IF n = 0 THEN rng ELSE RandomSkip(RandomRest(rng), n - 1)

\* ------------------------------------------------------------ eigen-solver
maxIterations == 200

\* 1e-10
toleranceDefault == Over(One, Times(FromInt(100000), FromInt(100000)))

\* 1e-8
toleranceLarge == Over(One, FromInt(100000000))

\* line 24
toleranceFor(isLargeMatrix) == IF isLargeMatrix THEN toleranceLarge ELSE toleranceDefault

\* v^T A v, the Rayleigh quotient of lines 126-132
RECURSIVE RayleighFrom(_, _, _)
RayleighFrom(A, v, i) ==
    IF i = 0 THEN Zero
    ELSE Plus(RayleighFrom(A, v, i - 1), Times(v[i], RowDot(A, v, i, Len(v))))

\* lines 134-140: the convergence test on the new Rayleigh quotient
PowerStepTest(s, v2, newLambda, converged) ==
    [v |-> v2, lambda |-> newLambda, converged |-> converged, done |-> converged,
     iterations |-> s.iterations + 1, start |-> s.start]

\* lines 123-132: v = Av / norm and its Rayleigh quotient
PowerStepRayleigh(s, v2, newLambda, tolerance) ==
    PowerStepTest(s, v2, newLambda, Lt(Abs(Minus(newLambda, s.lambda)), tolerance))

PowerStepScaled(A, s, v2, tolerance) ==
    PowerStepRayleigh(s, v2, RayleighFrom(A, v2, Len(v2)), tolerance)

\* lines 120-123: the norm of Av; below tolerance the loop is left
PowerStepNorm(A, s, Av, norm, tolerance) ==
    IF Lt(norm, tolerance)
    THEN [s EXCEPT !.done = TRUE, !.iterations = @ + 1]
    ELSE PowerStepScaled(A, s, Array([i \in 1..Len(Av) |-> Over(Av[i], norm)]), tolerance)

PowerStepAv(A, s, Av, tolerance) == PowerStepNorm(A, s, Av, Norm(Av), tolerance)

\* One pass of the loop body of lines 116-141; once the loop has been
\* left (done) the state no longer changes.
PowerStep(A, s, tolerance) ==
    IF s.done THEN s
    ELSE PowerStepAv(A, s, multiplyMatrixVector(A, s.v), tolerance)

RECURSIVE PowerSteps(_, _, _, _)
\* count passes of the loop body, one after the other
PowerSteps(A, s, count, tolerance) ==
    IF count = 0 \/ s.done THEN s
    ELSE IF count = 1 THEN PowerStep(A, s, tolerance)
    ELSE PowerSteps(A, PowerSteps(A, s, count \div 2, tolerance),
                    count - (count \div 2), tolerance)

\* lines 113-115: lambda = 0, converged = false, before the first pass
PowerStart(v) ==
    [v |-> v, lambda |-> Zero, converged |-> FALSE, done |-> FALSE,
     iterations |-> 0, start |-> v]

\* PowerIteration with the loop test iter <= maxIterations
PowerIterationOneMore(A, v, tolerance) ==
    PowerSteps(A, PowerStart(v), maxIterations + 1, tolerance)

\* The inner loop of lines 113-141: at most maxIterations passes.
PowerIteration(A, v, tolerance) ==
    PowerSteps(A, PowerStart(v), maxIterations, tolerance)

\* Deflation, lines 151-155: A[i][j] -= lambda * v[i] * v[j]
Deflate(A, lambda, v) ==
    Array([i \in 1..Len(A) |-> Array([j \in 1..Len(A) |->
              Minus(At(A, i, j), Times(Times(lambda, v[i]), v[j]))])])

\* Normalized falling back to the first unit vector for a vector too short
NormalizedOrUnit(v, norm, tolerance) ==
    IF Gt(norm, tolerance) THEN Array([i \in 1..Len(v) |-> Over(v[i], norm)])
    ELSE Array([i \in 1..Len(v) |-> IF i = 1 THEN One ELSE Zero])

\* lines 101-111: the random initial vector, normalized unless its norm
\* is not above the tolerance
Normalized(v, norm, tolerance) ==
    IF Gt(norm, tolerance) THEN Array([i \in 1..Len(v) |-> Over(v[i], norm)]) ELSE v

InitialVector(rng, n, tolerance) ==
    Normalized(RandomVector(rng, n), Norm(RandomVector(rng, n)), tolerance)

\* lines 96-98: the value passed to the progress callback for index k
EigenProgress(k, maxEigenvalues) ==
    Times(Over(FromInt(k), FromInt(maxEigenvalues)), FromInt(100))

\* What the loop body of lines 95-156 did for one index: the working matrix
\* it ran on, the vector drawn from Math.random, the initial vector as the
\* power iteration received it, and lambda, converged and the passes run
\* when the inner loop was left.
Attempt(A, random, it) ==
    [A |-> A, random |-> random, start |-> it.start, lambda |-> it.lambda,
     converged |-> it.converged, iterations |-> it.iterations]

\* ------------------------------------------------------------ arrays in storage
\* An array is an object: heap[a] is the row stored at address a.  A matrix
\* in storage is the record of a heap and of refs, the sequence of the
\* addresses of its rows.  A call reads and writes the rows it holds an
\* address of.
RowsAt(heap, refs) == Array([i \in 1..Len(refs) |-> heap[refs[i]]])

\* the entries of the matrix A in storage
Stored(A) == RowsAt(A.heap, A.refs)

\* the addresses from + 1 .. from + n
RefsFrom(from, n) == Array([i \in 1..n |-> from + i])

RECURSIVE RowsWritten(_, _, _, _)
\* heap after rows[1], ..., rows[k] were stored at refs[1], ..., refs[k], in
\* this order
RowsWritten(heap, refs, rows, k) ==
    IF k = 0 THEN heap
    ELSE [RowsWritten(heap, refs, rows, k - 1) EXCEPT ![refs[k]] = rows[k]]

\* Deflation, lines 151-155, where it happens: A[i][j] -= ... stores into
\* the rows A refers to
DeflateAt(A, lambda, v) ==
    [heap |-> RowsWritten(A.heap, A.refs, Deflate(Stored(A), lambda, v), Len(A.refs)),
     refs |-> A.refs]

RECURSIVE EigenLoop(_, _, _, _, _, _)
RECURSIVE EigenPair(_, _, _, _, _, _, _)
\* EigenPair with continue in place of the break of line 143
EigenPairSkipping(A, k, maxEigenvalues, tolerance, rng, acc, it) ==
    IF Lt(Abs(it.lambda), tolerance) \/ ~it.converged
    THEN EigenLoop(A, k + 1, maxEigenvalues, tolerance, RandomSkip(rng, Len(A.refs)),
                   [values |-> acc.values, vectors |-> acc.vectors,
                    progress |-> Append(acc.progress, EigenProgress(k, maxEigenvalues)),
                    steps |-> acc.steps + it.iterations,
                    attempts |-> Append(acc.attempts,
                                        Attempt(Stored(A), RandomVector(rng, Len(A.refs)),
                                                it))])
    ELSE EigenLoop(DeflateAt(A, it.lambda, it.v), k + 1, maxEigenvalues,
                   tolerance, RandomSkip(rng, Len(A.refs)),
                   [values |-> Append(acc.values, it.lambda),
                    vectors |-> Append(acc.vectors, it.v),
                    progress |-> Append(acc.progress, EigenProgress(k, maxEigenvalues)),
                    steps |-> acc.steps + it.iterations,
                    attempts |-> Append(acc.attempts,
                                        Attempt(Stored(A), RandomVector(rng, Len(A.refs)),
                                                it))])

\* lines 142-156 for index k, with A the working matrix in storage, rng the
\* values of Math.random before the draw of lines 101-105 and it the outcome
\* of the power iteration: stop, or emit the pair, deflate and go on with
\* k + 1
EigenPair(A, k, maxEigenvalues, tolerance, rng, acc, it) ==
    IF Lt(Abs(it.lambda), tolerance) \/ ~it.converged
    THEN [values |-> acc.values, vectors |-> acc.vectors,
          progress |-> Append(acc.progress, EigenProgress(k, maxEigenvalues)),
          steps |-> acc.steps + it.iterations, rng |-> RandomSkip(rng, Len(A.refs)),
          work |-> Stored(A), heap |-> A.heap,
          attempts |-> Append(acc.attempts,
                              Attempt(Stored(A), RandomVector(rng, Len(A.refs)), it))]
    ELSE EigenLoop(DeflateAt(A, it.lambda, it.v), k + 1, maxEigenvalues,
                   tolerance, RandomSkip(rng, Len(A.refs)),
                   [values |-> Append(acc.values, it.lambda),
                    vectors |-> Append(acc.vectors, it.v),
                    progress |-> Append(acc.progress, EigenProgress(k, maxEigenvalues)),
                    steps |-> acc.steps + it.iterations,
                    attempts |-> Append(acc.attempts,
                                        Attempt(Stored(A), RandomVector(rng, Len(A.refs)),
                                                it))])

\* The outer loop of lines 95-156 from index k on, A being the working
\* matrix in storage; acc holds the pairs found so far, the values passed to
\* the progress callback, the number of power-iteration steps run and what
\* each index did.
EigenLoop(A, k, maxEigenvalues, tolerance, rng, acc) ==
    IF k >= maxEigenvalues
    THEN [values |-> acc.values, vectors |-> acc.vectors, progress |-> acc.progress,
          steps |-> acc.steps, rng |-> rng, work |-> Stored(A), heap |-> A.heap,
          attempts |-> acc.attempts]
    ELSE EigenPair(A, k, maxEigenvalues, tolerance, rng, acc,
                   PowerIteration(Stored(A), InitialVector(rng, Len(A.refs), tolerance),
                                  tolerance))

\* matrix.map(row => row): a new outer array of the rows of matrix
copyRowsShared(heap, refs) == [heap |-> heap, refs |-> refs]

\* lines 14 and 93: matrix.map(row => [...row]): every row is copied into a
\* new array, stored at an address not in use
copyRows(heap, refs) ==
    [heap |-> heap \o Array([i \in 1..Len(refs) |->
                                Array([j \in 1..Len(heap[refs[i]]) |-> heap[refs[i]][j]])]),
     refs |-> RefsFrom(Len(heap), Len(refs))]

\* line 158, with the matrix passed in as the caller finds it afterwards:
\* the rows at the addresses the caller holds
EigenResult(refs, loop) ==
    [values |-> loop.values, vectors |-> loop.vectors, progress |-> loop.progress,
     steps |-> loop.steps, rng |-> loop.rng, work |-> loop.work, heap |-> loop.heap,
     attempts |-> loop.attempts,
     argument |-> RowsAt(loop.heap, refs)]

\* SVD.eigenDecomposition called with the matrix whose rows are at refs
eigenDecompositionAt(heap, refs, maxEigenvalues, tolerance, rng) ==
    EigenResult(refs,
                EigenLoop(copyRows(heap, refs), 0, maxEigenvalues, tolerance, rng,
                          [values |-> << >>, vectors |-> << >>, progress |-> << >>,
                           steps |-> 0, attempts |-> << >>]))

\* SVD.eigenDecomposition(matrix, maxEigenvalues, tolerance), the rows of
\* matrix being the arrays at addresses 1 .. matrix.length
eigenDecomposition(matrix, maxEigenvalues, tolerance, rng) ==
    eigenDecompositionAt(matrix, RefsFrom(0, Len(matrix)), maxEigenvalues, tolerance, rng)

\* ------------------------------------------------------------ SVD.decompose
RECURSIVE InsertDesc(_, _, _)
\* idx inserted into the index list order: the comparator b.val - a.val of
\* line 54 puts it before the first index whose value is smaller, behind
\* every index of equal value (Array.prototype.sort is stable).
InsertDesc(order, idx, sigma) ==
    IF order = << >> THEN <<idx>>
    ELSE IF Gt(Minus(sigma[idx], sigma[Head(order)]), Zero)
         THEN <<idx>> \o order
         ELSE <<Head(order)>> \o InsertDesc(Tail(order), idx, sigma)

RECURSIVE SortIndices(_, _)
\* lines 52-54: the indices 1..k of sigma sorted by value, descending
SortIndices(sigma, k) ==
    IF k = 0 THEN << >>
    ELSE InsertDesc(SortIndices(sigma, k - 1), k, sigma)

\* lines 59-71: the i-th pushed column of U
UColumn(A, m, sortedSigma, V_T, i, tolerance) ==
    IF i <= Len(sortedSigma) /\ Gt(sortedSigma[i], tolerance)
    THEN Array([r \in 1..Len(A) |->
                   Over(RowDot(A, V_T[i], r, Len(V_T[i])), sortedSigma[i])])
    ELSE Array([r \in 1..m |-> Zero])

NoResult ==
    [U |-> << >>, sigma |-> << >>, V_T |-> << >>]

\* lines 59-79: U from the sorted singular values and the rows of V_T
decomposeResult(A, sortedSigma, V_T, tolerance) ==
    [U |-> transpose(Array([i \in 1..IntMin(Len(A), Len(A[1])) |->
                               UColumn(A, Len(A), sortedSigma, V_T, i, tolerance)])),
     sigma |-> sortedSigma,
     V_T |-> V_T]

\* decomposeSorted reordering the singular values but not the eigenvectors
decomposeSortedValuesOnly(A, sigma, vectors, indices, tolerance) ==
    decomposeResult(A, Array([i \in 1..Len(indices) |-> sigma[indices[i]]]), vectors,
                    tolerance)

\* lines 52-57: sigma and the eigenvectors reordered by the sorted indices
decomposeSorted(A, sigma, vectors, indices, tolerance) ==
    decomposeResult(A, Array([i \in 1..Len(indices) |-> sigma[indices[i]]]),
                    Array([i \in 1..Len(indices) |-> vectors[indices[i]]]), tolerance)

\* decomposeSigma without the sort of lines 52-54
decomposeSigmaUnsorted(A, sigma, vectors, tolerance) ==
    decomposeSorted(A, sigma, vectors, [i \in 1..Len(sigma) |-> i], tolerance)

\* line 49 onwards: the singular values are the roots of the eigenvalues
decomposeSigma(A, sigma, vectors, tolerance) ==
    decomposeSorted(A, sigma, vectors, SortIndices(sigma, Len(sigma)), tolerance)

\* line 37 and line 44: 30 + progress * 0.3 and 60 + progress * 0.3
decomposeScaled(base, progress) ==
    Array([i \in 1..Len(progress) |->
              Plus(FromInt(base), Times(progress[i], Decimal(3, 10)))])

\* lines 19-46 and 73: the values passed to progressCallback
decomposeProgress(progressV, progressU) ==
    <<FromInt(10), FromInt(30)>>
    \o decomposeScaled(30, progressV)
    \o <<FromInt(60)>>
    \o decomposeScaled(60, progressU)
    \o <<FromInt(100)>>

\* lines 48-79, with the two eigen-decompositions done and A the entries of
\* the copy of line 14; the matrix passed in, as the caller finds it
\* afterwards, is read from its rows
decomposeEigen(A, eigenV, eigenU, tolerance) ==
    [err |-> "none",
     values |-> eigenV.values,
     vectors |-> eigenV.vectors,
     argument |-> RowsAt(eigenU.heap, RefsFrom(0, Len(A))),
     result |-> decomposeSigma(A, Array([i \in 1..Len(eigenV.values) |->
                                            Sqrt(MaxOf(Zero, eigenV.values[i]))]),
                               eigenV.vectors, tolerance),
     rng |-> eigenU.rng,
     progress |-> decomposeProgress(eigenV.progress, eigenU.progress),
     steps |-> eigenV.steps + eigenU.steps,
     attempts |-> <<eigenV.attempts, eigenU.attempts>>]

\* lines 33-46: the eigen-decomposition of A^T A, then that of A A^T, whose
\* rows are the newest in storage
decomposeProducts(A, AtA, AAt, maxEigenvalues, tolerance, rng, eigenV) ==
    decomposeEigen(Stored(A), eigenV,
                   eigenDecompositionAt(eigenV.heap,
                                        RefsFrom(Len(A.heap) + Len(AtA), Len(AAt)),
                                        maxEigenvalues, tolerance, eigenV.rng),
                   tolerance)

\* lines 22-28 with A the copy of line 14 in storage; transpose (line 272)
\* and multiplyMatrices (line 291) create the arrays of their results: the
\* rows of A^T A and of A A^T are stored at new addresses
decomposeSized(A, minDim, isLargeMatrix, AtA, AAt, rng) ==
    decomposeProducts(A, AtA, AAt,
                      IF isLargeMatrix THEN IntMin(minDim, 50) ELSE IntMin(minDim, 100),
                      toleranceFor(isLargeMatrix), rng,
                      eigenDecompositionAt(A.heap \o AtA \o AAt,
                          RefsFrom(Len(A.heap), Len(AtA)),
                          IF isLargeMatrix THEN IntMin(minDim, 50) ELSE IntMin(minDim, 100),
                          toleranceFor(isLargeMatrix), rng))

\* lines 15-28 with A the copy of line 14 in storage and M its entries
decomposeCopied(A, M, rng) ==
    decomposeSized(A, IntMin(Len(M), Len(M[1])),
                   Len(M) * Len(M[1]) > 100000,
                   multiplyMatrices(transpose(M), M),
                   multiplyMatrices(M, transpose(M)), rng)

\* line 14: const A = matrix.map(row => [...row])
decomposeCopy(A, rng) == decomposeCopied(A, Stored(A), rng)

\* SVD.decompose(matrix, progressCallback) with Math.random returning rng
\* and the rows of matrix the arrays at addresses 1 .. matrix.length:
\* the result or the error thrown, the eigenvalues of A^T A in the order
\* found, the values Math.random has left afterwards, the values passed to
\* progressCallback and the power-iteration steps run; argument is the
\* matrix passed in as the caller finds it afterwards.
decompose(matrix, rng) ==
    IF matrix = << >> \/ Len(matrix[1]) = 0
    THEN \* line 16 (A[0] undefined) or line 27 (transpose(A) is empty)
         [err |-> "TypeError", values |-> << >>, vectors |-> << >>, argument |-> matrix,
          result |-> NoResult, rng |-> rng,
          progress |-> IF matrix = << >> THEN << >> ELSE <<FromInt(10)>>,
          steps |-> 0, attempts |-> << << >>, << >> >>]
    ELSE decomposeCopy(copyRows(matrix, RefsFrom(0, Len(matrix))), rng)

\* ------------------------------------------------------------ reconstruction
\* retainCount without the Math.max(1, ...) of line 176
retainCountFromZero(sigma, percent) ==
    Ceil(Times(FromInt(Len(sigma)), percent))

\* line 176: Math.max(1, Math.ceil(sigma.length * percent))
retainCount(sigma, percent) ==
    MaxOf(One, Ceil(Times(FromInt(Len(sigma)), percent)))

\* the passes of for (k = 0; k < count && k < length; k++), count a whole
\* number or NaN
LoopPasses(count, length) ==
    IF IsNaN(count) \/ Lt(count, One) THEN 0
    ELSE IF Lt(FromInt(length), count) THEN length
    ELSE ToInt(count)

\* summedCount with the bound k < sigma.length - 1 in the loop of line 179
summedCountShort(sigma, percent) ==
    LoopPasses(retainCount(sigma, percent), Len(sigma) - 1)

\* line 179: the number of components getCompressData sums
summedCount(sigma, percent) ==
    LoopPasses(retainCount(sigma, percent), Len(sigma))

RECURSIVE ComponentSum(_, _, _, _)
\* the sum over k = 1..count of sigma[k] * U[i][k] * V_T[k][j], in order
ComponentSum(svdResult, i, j, count) ==
    IF count = 0 THEN Zero
    ELSE Plus(ComponentSum(svdResult, i, j, count - 1),
              Times(Times(svdResult.sigma[count], At(svdResult.U, i, count)),
                    At(svdResult.V_T, count, j)))

\* Quantize without the clamp of lines 189-197
QuantizeUnclamped(value) ==
    Round(value)

\* lines 189-201 and 246-258: clamp to [0,255], then Math.round
Quantize(value) ==
    IF Lt(value, Zero) THEN Round(Zero)
    ELSE IF Gt(value, FromInt(255)) THEN Round(FromInt(255))
    ELSE Round(value)

\* U.length is read from an array, V_T[0].length from V_T[0]: the latter
\* throws a TypeError when V_T is empty.
getCompressThrows(svdResult) == svdResult.V_T = << >>

\* lines 173-203 and 218-258: the channel of the first count components
channelSummed(svdResult, count) ==
    Array([i \in 1..Len(svdResult.U) |-> Array([j \in 1..Len(svdResult.V_T[1]) |->
              Quantize(ComponentSum(svdResult, i, j, count))])])

\* SVD.getCompressData
getCompressData(svdResult, percent) ==
    channelSummed(svdResult, summedCount(svdResult.sigma, percent))

RECURSIVE UsedFromExcluding(_, _, _, _)
\* UsedFrom leaving the loop before the component that crosses the target is
\* counted and summed
UsedFromExcluding(sigma, targetSum, currentSum, i) ==
    IF i >= Len(sigma) THEN i
    ELSE IF Gt(Plus(currentSum, sigma[i + 1]), targetSum) THEN i
    ELSE UsedFromExcluding(sigma, targetSum, Plus(currentSum, sigma[i + 1]), i + 1)

RECURSIVE UsedFrom(_, _, _, _)
\* lines 228-243: the loop from index i (0-based) on, with currentSum the
\* sum before it; yields usedSingularValues
UsedFrom(sigma, targetSum, currentSum, i) ==
    IF i >= Len(sigma) THEN i
    ELSE IF Gt(Plus(currentSum, sigma[i + 1]), targetSum) THEN i + 1
    ELSE UsedFrom(sigma, targetSum, Plus(currentSum, sigma[i + 1]), i + 1)

\* usedSingularValues with percent taken as the share to discard
usedSingularValuesDiscarding(sigma, percent) ==
    UsedFrom(sigma, Times(SumSeq(sigma), Minus(One, percent)), Zero, 0)

\* lines 221-225: totalSum, targetSum = totalSum * percent and the loop
usedSingularValues(sigma, percent) ==
    UsedFrom(sigma, Times(SumSeq(sigma), percent), Zero, 0)

\* lines 260-263
getCompressSumOf(svdResult, used) ==
    [matrix |-> channelSummed(svdResult, used), usedSingularValues |-> used]

\* SVD.getCompressSum
getCompressSum(svdResult, percent) ==
    getCompressSumOf(svdResult, usedSingularValues(svdResult.sigma, percent))

\* ------------------------------------------------------------ inputs
MaxDim == 2

Dims == 1..MaxDim

Patterns ==
    {"zero", "uniform", "white", "checker", "diagonal", "bright", "corner", "twin",
     "mixed"}

\* The pixel value (0..255) of a pattern at row y, column x (both 0-based)
\* of an image with the given width and height.
Pixel(pattern, y, x, width, height) ==
    CASE pattern = "zero" -> 0
      [] pattern = "uniform" -> 100
      [] pattern = "white" -> 255
      [] pattern = "checker" -> IF (x + y) % 2 = 1 THEN 255 ELSE 0
      [] pattern = "diagonal" -> IF x = y THEN 200 - 70 * x ELSE 0
      [] pattern = "corner" -> IF x = 0 /\ y = 0 THEN 255 ELSE 0
      [] pattern = "twin" -> IF x = y THEN 255 ELSE 1
      [] pattern = "bright" -> IF x = width - 1 /\ y = height - 1 /\ x + y > 0
                               THEN 0 ELSE 255
      [] OTHER -> (10 + 190 * x + 20 * y + 67 * x * y) % 256

PatternMatrix(pattern, m, n) ==
    Array([i \in 1..m |->
              Array([j \in 1..n |-> FromInt(Pixel(pattern, i - 1, j - 1, n, m))])])

\* a matrix of twice as many rows as columns, every entry 200
TallMatrices ==
    {Array([i \in 1..4 |-> Array([j \in 1..2 |-> FromInt(200)])])}

WellFormedMatrices ==
    {PatternMatrix(p, m, n) : p \in Patterns, m \in Dims, n \in Dims} \cup TallMatrices

\* Empty and ragged matrices: no rows, a row without entries, a later row
\* that is longer than the first, a later row that is shorter.
MalformedMatrices ==
    { << >>,
      << << >> >>,
      << <<FromInt(200)>>, <<FromInt(1), FromInt(7)>> >>,
      << <<FromInt(200), FromInt(3)>>, <<FromInt(1)>> >> }

\* the values t[1] / 1000, t[2] / 1000, ... as Math.random returns them
Thousandths(t) == Array([i \in 1..Len(t) |-> Decimal(t[i], 1000)])

\* 2^-40
Tiny == Over(One, Times(FromInt(2 ^ 20), FromInt(2 ^ 20)))

\* What Math.random returns during a behaviour: eight values of no
\* particular kind; 0.5 every time, which makes every initial vector zero;
\* 0.5 + 2^-40 every time, which makes every initial vector shorter than
\* the tolerance; and four values that send the iteration to the smaller
\* eigenvalue of a diagonal matrix first.
Tapes ==
    { Thousandths(<<123, 590, 397, 344, 231, 858, 25, 532>>),
      <<Half>>,
      <<Plus(Half, Tiny)>>,
      Thousandths(<<500, 875, 750, 125>>) }

\* what Math.random returns during a call of compressImage
ImageTapes ==
    { Thousandths(<<123, 590, 397, 344, 231, 858, 25, 532>>),
      <<Half>> }

NoTape == << >>

\* percent arguments of the reconstructors
Percents == {Decimal(p, 1000) : p \in {0, 10, 250, 500, 750, 990, 1000, 1500}}

\* ------------------------------------------------------------ images
\* An ImageData: width, height and the RGBA bytes of its pixels, row by row.
Colourings ==
    { [r |-> "zero", g |-> "zero", b |-> "zero", a |-> "white"],
      [r |-> "uniform", g |-> "uniform", b |-> "uniform", a |-> "white"],
      [r |-> "checker", g |-> "checker", b |-> "checker", a |-> "uniform"],
      [r |-> "mixed", g |-> "mixed", b |-> "mixed", a |-> "white"],
      [r |-> "uniform", g |-> "zero", b |-> "checker", a |-> "white"],
      [r |-> "mixed", g |-> "bright", b |-> "uniform", a |-> "zero"],
      [r |-> "diagonal", g |-> "corner", b |-> "uniform", a |-> "white"],
      [r |-> "corner", g |-> "mixed", b |-> "diagonal", a |-> "white"] }

ChannelOf(c, k) == IF k = 0 THEN c.r ELSE IF k = 1 THEN c.g ELSE IF k = 2 THEN c.b ELSE c.a

MakeImage(c, width, height) ==
    [width |-> width, height |-> height,
     data |-> Array([idx \in 1..(4 * width * height) |->
                  Pixel(ChannelOf(c, (idx - 1) % 4),
                        ((idx - 1) \div 4) \div width, ((idx - 1) \div 4) % width,
                        width, height)])]

Images == {MakeImage(c, w, h) : c \in Colourings, w \in Dims, h \in Dims}

\* compressionRatio arguments, 0..100
Ratios == {0, 50, 100}

Methods == {"count", "sum"}

\* ------------------------------------------------------------ ImageProcessor
\* line 336: Math.max(1, Math.floor(data.length / 4 / 1000))
SampleStep(imageData) ==
    IntMax(1, ToInt(Floor(Over(Over(FromInt(Len(imageData.data)), FromInt(4)),
                               FromInt(1000)))))

\* detectImageType, lines 330-355: the pixels sampled are 0, sampleStep, ...
SampledPixels(imageData) ==
    {q \in 0..((Len(imageData.data) \div 4) - 1) : q % SampleStep(imageData) = 0}

\* Math.abs(a - b) of two bytes
Distance(a, b) == IF a < b THEN b - a ELSE a - b

IsGrayPixel(data, q) ==
    /\ Distance(data[4 * q + 1], data[4 * q + 2]) <= 5
    /\ Distance(data[4 * q + 2], data[4 * q + 3]) <= 5
    /\ Distance(data[4 * q + 1], data[4 * q + 3]) <= 5

\* line 353: grayscalePixels / totalPixels
grayscaleRatio(imageData) ==
    Over(FromInt(Cardinality({q \in SampledPixels(imageData) :
                                 IsGrayPixel(imageData.data, q)})),
         FromInt(Cardinality(SampledPixels(imageData))))

\* line 354: grayscaleRatio >= 0.95
detectImageType(imageData) ==
    IF Ge(grayscaleRatio(imageData), Decimal(95, 100)) THEN "grayscale" ELSE "rgb"

\* the matrix of byte k (0 = red, 1 = green, 2 = blue) of every pixel
ChannelMatrix(imageData, k) ==
    Array([y \in 1..imageData.height |-> Array([x \in 1..imageData.width |->
        FromInt(imageData.data[((y - 1) * imageData.width + (x - 1)) * 4 + k + 1])])])

\* imageToMatrix, lines 362-407: one matrix (gray) or three (r, g, b)
imageToMatrix(imageData) ==
    IF detectImageType(imageData) = "grayscale"
    THEN [type |-> "grayscale", matrices |-> <<ChannelMatrix(imageData, 0)>>]
    ELSE [type |-> "rgb",
          matrices |-> <<ChannelMatrix(imageData, 0), ChannelMatrix(imageData, 1),
                         ChannelMatrix(imageData, 2)>>]

\* a number stored into a Uint8ClampedArray: NaN becomes 0
StoredByte(value) == IF IsNaN(value) THEN 0 ELSE ToInt(value)

\* Math.max(0, Math.min(255, Math.round(value))) stored into a byte
ToByte(value) == StoredByte(MaxOf(Zero, MinOf(FromInt(255), Round(value))))

\* the alpha byte of a new ImageData that is never written: transparent
alphaUnwritten == 0

\* lines 429 and 441: imageData.data[idx + 3] = 255
alphaWritten == 255

\* matrixToImage, lines 414-446
matrixToImage(type, matrices, width, height) ==
    [width |-> width, height |-> height,
     data |-> Array([idx \in 1..(4 * width * height) |->
                  IF (idx - 1) % 4 = 3 THEN alphaWritten
                  ELSE ToByte(matrices[IF type = "grayscale" THEN 1
                                       ELSE ((idx - 1) % 4) + 1]
                                      [(((idx - 1) \div 4) \div width) + 1]
                                      [(((idx - 1) \div 4) % width) + 1])])]

\* ------------------------------------------------------------ pixel buffers in storage
\* An ImageData owns the array of its bytes: buffers[a] is the array at
\* address a.  The storage of a call of compressImage holds the buffers the
\* call can reach, input is the address of the data of its imageData
\* argument and output that of the data of the ImageData it returned (0:
\* none).
NoStore == [buffers |-> << >>, input |-> 0, output |-> 0]

\* line 456: compressImage is called with imageData, whose bytes are in the
\* one buffer there is
StoreAtCall(imageData) == [buffers |-> <<imageData.data>>, input |-> 1, output |-> 0]

\* the ImageData handed out over the buffer created last
createImageDataReused(buffers, width, height) ==
    [buffers |-> buffers, buffer |-> Len(buffers)]

\* line 416: new ImageData(width, height) creates an array of
\* 4 * width * height bytes, all 0, at an address not in use
createImageData(buffers, width, height) ==
    [buffers |-> Append(buffers, Array([idx \in 1..(4 * width * height) |-> 0])),
     buffer |-> Len(buffers) + 1]

\* imageData.data[idx] = ... for every byte of written, lines 424-441: a
\* store behind the end of the array is ignored
BytesStored(data, written) ==
    Array([idx \in 1..Len(data) |-> IF idx <= Len(written) THEN written[idx]
                                    ELSE data[idx]])

\* lines 421-445 with the ImageData created: the bytes of image are stored
\* into its buffer, which is the one returned
StoreWritten(store, created, image) ==
    [buffers |-> [created.buffers EXCEPT ![created.buffer] = BytesStored(@, image.data)],
     input |-> store.input,
     output |-> created.buffer]

\* matrixToImage, lines 414-446, in storage: image is what it computes
matrixToImageAt(store, image) ==
    StoreWritten(store, createImageData(store.buffers, image.width, image.height), image)

\* the integer n of toFixed(2) for a finite number x, taken from |x|:
\* n / 100 is as close to |x| as possible and n is the larger one of two;
\* P is 100 times the mantissa of x
HundredthsOf(x, P) ==
    IF x.e >= 0 THEN 100 * ToInt(Abs(x))
    ELSE ShiftRightLimb(P, 0 - x.e, 1) + Base * ShiftRightLimb(P, 0 - x.e, 2)
             + BitOf(P, 0 - x.e - 1)

\* Number.prototype.toFixed(2), the string as its parts: a finite number
\* below zero prints "-" and the digits of -x ("-0.80", and "-0.00" when
\* they round to zero), -0 prints "0.00"; the others print "Infinity",
\* "-Infinity" and "NaN"
toFixed2(x) ==
    [finite |-> IsFinite(x),
     nan |-> IsNaN(x),
     negative |-> Lt(x, Zero),
     hundredths |-> IF IsFinite(x) THEN HundredthsOf(x, Product(x.m, <<100, 0, 0, 0>>))
                    ELSE 0]

\* lines 514 and 522: (m * n) / (k * (m + n + 1)) and its toFixed(2)
dataCompressionRatio(m, n, k) ==
    toFixed2(Over(FromInt(m * n), FromInt(k * (m + n + 1))))

NoRatio == [finite |-> TRUE, nan |-> FALSE, negative |-> FALSE, hundredths |-> 0]

NoImage == [width |-> 0, height |-> 0, data |-> << >>]

\* calculateMSE, lines 606-635
SquaredDiff(original, compressed, idx) ==
    (original[idx] - compressed[idx]) * (original[idx] - compressed[idx])

\* one iteration of the loop with the alpha byte compared as well
pixelSquaredDiffWithAlpha(original, compressed, i) ==
    SquaredDiff(original, compressed, i + 1) + SquaredDiff(original, compressed, i + 2)
        + SquaredDiff(original, compressed, i + 3) + SquaredDiff(original, compressed, i + 4)

\* lines 619-629: diffR * diffR + diffG * diffG + diffB * diffB of the pixel at
\* data[i], data[i + 1], data[i + 2] (bytes i + 1 .. i + 3 of the sequence)
pixelSquaredDiff(original, compressed, i) ==
    SquaredDiff(original, compressed, i + 1) + SquaredDiff(original, compressed, i + 2)
        + SquaredDiff(original, compressed, i + 3)

\* lines 618-632: for (let i = 0; i < original.length; i += 4), from index i on
RECURSIVE MseLoop(_, _, _, _, _)
MseLoop(original, compressed, i, sumSquaredDiff, pixelCount) ==
    IF i >= Len(original)
    THEN [sumSquaredDiff |-> sumSquaredDiff, pixelCount |-> pixelCount]
    ELSE MseLoop(original, compressed, i + 4,
                 sumSquaredDiff + pixelSquaredDiff(original, compressed, i),
                 pixelCount + 3)

\* line 634: sumSquaredDiff / pixelCount, 0 / 0 being NaN
MseValue(sums) == Over(FromInt(sums.sumSquaredDiff), FromInt(sums.pixelCount))

MseReturned(other, sums) ==
    [err |-> "none", other |-> other, sumSquaredDiff |-> sums.sumSquaredDiff,
     pixelCount |-> sums.pixelCount, value |-> MseValue(sums)]

calculateMSE(originalImageData, compressedImageData) ==
    IF Len(originalImageData.data) # Len(compressedImageData.data)
    THEN [err |-> "Error", other |-> compressedImageData, sumSquaredDiff |-> 0,
          pixelCount |-> 0, value |-> Zero]
    ELSE MseReturned(compressedImageData,
                     MseLoop(originalImageData.data, compressedImageData.data, 0, 0, 0))

\* ------------------------------------------------------------ state
VARIABLES
    rng,                  \* the values Math.random returns from now on
    matrix,               \* argument of SVD.decompose
    svd,                  \* what SVD.decompose returned or threw
    recon,                \* what the reconstructor called on svd.result returned or threw
    stage,                \* "input", "decomposed", "reconstructed", "called", "off"
    call,                 \* a direct call of another static method of SVD, and its outcome
    imageData,            \* arguments of ImageProcessor.compressImage
    compressionRatio,
    compressionMethod,
    hasCallback,          \* progressCallback is a function, not null
    seed,                 \* rng when compressImage was called
    pc,                   \* "idle", "gray", "channel", "recompose", "returned", "thrown"
    type,                 \* imageToMatrix(imageData).type
    matrices,             \* the channel matrices of imageToMatrix
    channel,              \* the loop index i of lines 535-565
    compressedMatrices,
    lastSvd,              \* the SVD result of the channel processed last
    totalRetainedValues,
    totalSingularValues,
    progressLog,          \* the values passed to progressCallback, in order
    channelLog,           \* the channels decomposed and reconstructed so far, in order
    outcome,              \* what compressImage resolved to or was rejected with
    store,                \* the pixel buffers the call of compressImage can reach
    mse,                  \* a call of ImageProcessor.calculateMSE, and its outcome
    app                   \* the fields of ImageCompressorApp and what its page shows

svdVars == <<matrix, svd, recon, stage, call>>

imageVars ==
    <<imageData, compressionRatio, compressionMethod, hasCallback, seed, pc, type,
      matrices, channel, compressedMatrices, lastSvd, totalRetainedValues,
      totalSingularValues, progressLog, channelLog, outcome, store, mse>>

appVars == <<app>>

vars == <<rng, svdVars, imageVars, appVars>>

NoCall ==
    [err |-> "pending", values |-> << >>, vectors |-> << >>, argument |-> << >>,
     result |-> NoResult, rng |-> NoTape, progress |-> << >>, steps |-> 0,
     attempts |-> << << >>, << >> >>]

NoRecon ==
    [policy |-> "none", percent |-> Zero, err |-> "pending", matrix |-> << >>,
     usedSingularValues |-> 0]

NoOutcome ==
    [err |-> "pending", imageData |-> NoImage, retainedSingularValues |-> 0,
     totalSingularValues |-> 0, compressionRatio |-> NoRatio]

NoHelperCall == [op |-> "none"]

NoMse == [err |-> "pending", other |-> NoImage, sumSquaredDiff |-> 0, pixelCount |-> 0,
          value |-> Zero]

\* ImageCompressorApp after its constructor (app.js lines 361-369): no image
\* loaded, nothing shown, the chart empty.  compressedOf, mse.original,
\* mse.source and the source of a chart point name the image a displayed
\* result was computed from; exits lists how the clicks on the compress
\* button ended; overlapped records a click that arrived while a compression
\* was in flight.
NoApp ==
    [originalImageData |-> NoImage, disabled |-> FALSE, loading |-> FALSE,
     shown |-> FALSE, compressedOf |-> NoImage,
     mse |-> [value |-> Zero, original |-> NoImage, source |-> NoImage],
     chart |-> << >>, exits |-> << >>, clicks |-> 0, overlapped |-> FALSE]

AppIdle == app = NoApp

\* No call of compressImage is in progress.
ImageIdle ==
    /\ seed = NoTape
    /\ channelLog = << >>
    /\ mse = NoMse
    /\ imageData = NoImage
    /\ compressionRatio = 0
    /\ compressionMethod = "count"
    /\ hasCallback = FALSE
    /\ pc = "off"
    /\ type = "none"
    /\ matrices = << >>
    /\ channel = 0
    /\ compressedMatrices = << >>
    /\ lastSvd = NoResult
    /\ totalRetainedValues = 0
    /\ totalSingularValues = 0
    /\ progressLog = << >>
    /\ outcome = NoOutcome
    /\ store = NoStore

\* No direct call of class SVD is in progress.
SvdIdle ==
    /\ matrix = << >>
    /\ svd = NoCall
    /\ recon = NoRecon
    /\ stage = "off"
    /\ call = NoHelperCall

\* ------------------------------------------------------------ class SVD, called directly
InitSVD ==
    /\ rng \in Tapes
    /\ matrix \in WellFormedMatrices \cup MalformedMatrices
    /\ svd = NoCall
    /\ recon = NoRecon
    /\ stage = "input"
    /\ call = NoHelperCall
    /\ ImageIdle
    /\ AppIdle

\* const svdResult = SVD.decompose(matrix, progressCallback)
Decompose ==
    /\ stage = "input"
    /\ svd' = decompose(matrix, rng)
    /\ rng' = svd'.rng
    /\ stage' = "decomposed"
    /\ UNCHANGED <<matrix, recon, call, imageVars, appVars>>

\* SVD.getCompressData(svdResult, percent)
CompressData ==
    /\ stage = "decomposed"
    /\ svd.err = "none"
    /\ \E percent \in Percents :
          recon' = IF getCompressThrows(svd.result)
                   THEN [NoRecon EXCEPT !.policy = "count", !.percent = percent,
                                        !.err = "TypeError"]
                   ELSE [policy |-> "count", percent |-> percent, err |-> "none",
                         matrix |-> getCompressData(svd.result, percent),
                         usedSingularValues |-> 0]
    /\ stage' = "reconstructed"
    /\ UNCHANGED <<rng, matrix, svd, call, imageVars, appVars>>

\* SVD.getCompressSum(svdResult, percent)
CompressSum ==
    /\ stage = "decomposed"
    /\ svd.err = "none"
    /\ \E percent \in Percents :
          recon' = IF getCompressThrows(svd.result)
                   THEN [NoRecon EXCEPT !.policy = "sum", !.percent = percent,
                                        !.err = "TypeError"]
                   ELSE [policy |-> "sum", percent |-> percent, err |-> "none"]
                        @@ getCompressSum(svd.result, percent)
    /\ stage' = "reconstructed"
    /\ UNCHANGED <<rng, matrix, svd, call, imageVars, appVars>>

\* the second operands of the direct calls
Vectors == {PatternMatrix(p, 1, n)[1] : p \in Patterns, n \in 1..(MaxDim + 1)}

\* SVD.multiplyMatrices(matrix, B)
MultiplyMatrices ==
    /\ stage = "input"
    /\ \E B \in WellFormedMatrices :
          call' = [op |-> "multiplyMatrices", A |-> matrix, B |-> B,
                   err |-> IF multiplyMatricesThrows(matrix, B) THEN "TypeError"
                           ELSE "none",
                   value |-> IF multiplyMatricesThrows(matrix, B) THEN << >>
                             ELSE multiplyMatrices(matrix, B)]
    /\ stage' = "called"
    /\ UNCHANGED <<rng, matrix, svd, recon, imageVars, appVars>>

\* SVD.multiplyMatrixVector(matrix, vector)
MultiplyMatrixVector ==
    /\ stage = "input"
    /\ \E vector \in Vectors :
          call' = [op |-> "multiplyMatrixVector", A |-> matrix, v |-> vector,
                   err |-> "none", value |-> multiplyMatrixVector(matrix, vector)]
    /\ stage' = "called"
    /\ UNCHANGED <<rng, matrix, svd, recon, imageVars, appVars>>

\* tolerance arguments of the direct calls: the default 1e-10, and 1e-8
Tolerances == {toleranceFor(FALSE), toleranceFor(TRUE)}

\* the outcome of SVD.eigenDecomposition(matrix, maxEigenvalues, tolerance)
EigenCall(A, maxEigenvalues, tolerance, e) ==
    [op |-> "eigenDecomposition", A |-> A, maxEigenvalues |-> maxEigenvalues,
     tolerance |-> tolerance, err |-> "none", values |-> e.values,
     vectors |-> e.vectors, work |-> e.work, argument |-> e.argument,
     attempts |-> e.attempts]

\* SVD.eigenDecomposition(matrix, maxEigenvalues, tolerance) on a square matrix
EigenDecomposition ==
    /\ stage = "input"
    /\ matrix # << >>
    /\ \A i \in 1..Len(matrix) : Len(matrix[i]) = Len(matrix)
    /\ \E maxEigenvalues \in 1..Len(matrix), tolerance \in Tolerances :
          \E e \in {eigenDecomposition(matrix, maxEigenvalues, tolerance, rng)} :
              /\ call' = EigenCall(matrix, maxEigenvalues, tolerance, e)
              /\ rng' = e.rng
    /\ stage' = "called"
    /\ UNCHANGED <<matrix, svd, recon, imageVars, appVars>>

NextSVD ==
    \/ Decompose
    \/ CompressData
    \/ CompressSum
    \/ MultiplyMatrices
    \/ MultiplyMatrixVector
    \/ EigenDecomposition

SpecSVD == InitSVD /\ [][NextSVD]_vars

TypeOKSVD == stage \in {"input", "decomposed", "reconstructed", "called"}

\* ------------------------------------------------------------ ImageProcessor.compressImage
\* const percent = compressionRatio / 100
percentOf(ratio) == Over(FromInt(ratio), FromInt(100))

\* progressCallback(...) without the test of progressCallback before it
callbackCalledUnguarded(callback) == TRUE

\* if (progressCallback) ...: the call is made only for a callback that is not null
callbackCalled(callback) == callback

\* calling null throws a TypeError
reportThrows(callback) == callbackCalled(callback) /\ ~callback

\* if (progressCallback) progressCallback(value, ...), for every value in turn
Report(log, values, callback) ==
    IF callbackCalled(callback) /\ callback THEN log \o values ELSE log

\* the callback handed to SVD.decompose passing its argument on as it is
RescaledNot(progress, base, factor) == progress

\* the callback handed to SVD.decompose: base + progress * factor
Rescaled(progress, base, factor) ==
    Array([q \in 1..Len(progress) |-> Plus(FromInt(base), Times(progress[q], factor))])

\* lines 489-496 and 553-560: the reconstructed matrix and the count added to the statistics
channelCompressed(compressedResult) ==
    [matrix |-> compressedResult.matrix,
     retained |-> compressedResult.usedSingularValues,
     summed |-> compressedResult.usedSingularValues]

channelCompress(result, percent, method) ==
    IF method = "sum"
    THEN channelCompressed(getCompressSum(result, percent))
    ELSE [matrix |-> getCompressData(result, percent),
          retained |-> ToInt(Ceil(Times(FromInt(Len(result.sigma)), percent))),
          summed |-> summedCount(result.sigma, percent)]

\* the channels taken blue first
channelsReversed == <<"b", "g", "r">>

\* line 529: the channels of a colour image, in processing order
channels == <<"r", "g", "b">>

\* matrices[channel] and compressedMatrices[channel]: r, g, b are slots 1, 2, 3
channelSlot(name) == IF name = "r" THEN 1 ELSE IF name = "g" THEN 2 ELSE 3

\* an entry of channelLog
ChannelEvent(event, name, retained, total, summed) ==
    [event |-> event, channel |-> name, retained |-> retained, total |-> total,
     summed |-> summed]

\* the outcome with the ImageData returned read from its buffer
outcomeStored(result, stored) ==
    IF result.err = "none"
    THEN [result EXCEPT !.imageData.data = stored.buffers[stored.output]]
    ELSE result

\* lines 506 and 578: matrixToImage is called when nothing was thrown before
storeAfter(before, result) ==
    IF result.err = "none" THEN matrixToImageAt(before, result.imageData) ELSE before

\* Math.floor(total / 3)
roundedAverageDown(total) == total \div 3

\* Math.round(total / 3)
roundedAverage(total) == ToInt(Round(Over(FromInt(total), FromInt(3))))

Init ==
    /\ rng \in ImageTapes
    /\ imageData \in Images
    /\ compressionRatio \in Ratios
    /\ compressionMethod \in Methods
    /\ hasCallback \in BOOLEAN
    /\ seed = rng
    /\ channelLog = << >>
    /\ mse = NoMse
    /\ pc = "idle"
    /\ type = "none"
    /\ matrices = << >>
    /\ channel = 0
    /\ compressedMatrices = << >>
    /\ lastSvd = NoResult
    /\ totalRetainedValues = 0
    /\ totalSingularValues = 0
    /\ progressLog = << >>
    /\ outcome = NoOutcome
    /\ store = StoreAtCall(imageData)
    /\ SvdIdle
    /\ AppIdle

\* lines 456-477 and 529-543: the call, up to the first await
CompressImage ==
    /\ pc = "idle"
    /\ IF reportThrows(hasCallback)
       THEN /\ pc' = "thrown"
            /\ outcome' = [NoOutcome EXCEPT !.err = "TypeError"]
            /\ UNCHANGED <<type, matrices, progressLog, compressedMatrices>>
       ELSE /\ type' = imageToMatrix(imageData).type
            /\ matrices' = imageToMatrix(imageData).matrices
            /\ pc' = IF type' = "grayscale" THEN "gray" ELSE "channel"
            /\ progressLog' = Report(progressLog,
                                     <<FromInt(5), FromInt(10),
                                       IF type' = "grayscale" THEN FromInt(15)
                                       ELSE FromInt(20)>>,
                                     hasCallback)
            /\ compressedMatrices' = IF type' = "grayscale" THEN << >>
                                     ELSE Array([k \in 1..Len(channels) |-> << >>])
            /\ UNCHANGED outcome
    /\ UNCHANGED <<rng, svdVars, appVars, imageData, compressionRatio, compressionMethod, hasCallback,
                   seed, mse, channel, lastSvd, totalRetainedValues, totalSingularValues,
                   channelLog, store>>

\* lines 506-525 with the result c of getCompressSum
GrayReturned(d, c, image) ==
    [err |-> "none",
     imageData |-> matrixToImage("grayscale", <<c.matrix>>, image.width, image.height),
     retainedSingularValues |-> c.retained,
     totalSingularValues |-> Len(d.result.sigma),
     compressionRatio |-> dataCompressionRatio(image.height, image.width, c.retained)]

\* lines 486-525 with the result d of SVD.decompose: what the call resolves to or is
\* rejected with.  On the 'count' branch line 495 reads totalSingularValues, a const of
\* the same block that line 509 has not initialised yet.
grayOutcome(d, image, ratio, method) ==
    IF getCompressThrows(d.result)
    THEN [NoOutcome EXCEPT !.err = "TypeError"]
    ELSE IF method = "sum"
    THEN GrayReturned(d, channelCompress(d.result, percentOf(ratio), "sum"), image)
    ELSE [NoOutcome EXCEPT !.err = "ReferenceError"]

\* lines 570-596: what the colour branch resolves to
rgbOutcome(image, compressed, totalRetained, totalSingular) ==
    [err |-> "none",
     imageData |-> matrixToImage("rgb", compressed, image.width, image.height),
     retainedSingularValues |-> roundedAverage(totalRetained),
     totalSingularValues |-> roundedAverage(totalSingular),
     compressionRatio |-> dataCompressionRatio(image.height, image.width,
                                               roundedAverage(totalRetained))]

\* lines 480-525 with the result d of SVD.decompose
GrayResume(d) ==
    /\ rng' = d.rng
    /\ lastSvd' = d.result
    /\ \E result \in {grayOutcome(d, imageData, compressionRatio, compressionMethod)} :
           /\ store' = storeAfter(store, result)
           /\ outcome' = outcomeStored(result, store')
    /\ pc' = IF outcome'.err = "none" THEN "returned" ELSE "thrown"
    /\ progressLog' = Report(progressLog,
                             Rescaled(d.progress, 15, Decimal(3, 10))
                                 \o (IF outcome'.err = "none" THEN <<FromInt(100)>>
                                     ELSE << >>),
                             hasCallback)
    /\ totalSingularValues' = IF outcome'.err = "none" THEN Len(d.result.sigma) ELSE 0
    /\ compressedMatrices' = IF outcome'.err = "none"
                             THEN <<channelCompress(d.result, percentOf(compressionRatio),
                                                    "sum").matrix>>
                             ELSE << >>
    /\ totalRetainedValues' = outcome'.retainedSingularValues
    /\ imageData' = [imageData EXCEPT !.data = store'.buffers[store'.input]]
    /\ UNCHANGED <<svdVars, appVars, compressionRatio, compressionMethod, hasCallback, seed, mse,
                   type, matrices, channel, channelLog>>

\* lines 480-525: the continuation of the grayscale branch after its await
GrayChannel ==
    /\ pc = "gray"
    /\ GrayResume(decompose(matrices[1], rng))

\* lines 552-565 with the reconstruction c of channel name, then lines
\* 538-543 of the next iteration or lines 567-568
ChannelDone(d, name, c) ==
    /\ compressedMatrices' = [compressedMatrices EXCEPT ![channelSlot(name)] = c.matrix]
    /\ totalRetainedValues' = totalRetainedValues + c.retained
    /\ totalSingularValues' = totalSingularValues + Len(d.result.sigma)
    /\ channel' = channel + 1
    /\ pc' = IF channel' < Len(channels) THEN "channel" ELSE "recompose"
    /\ progressLog' = Report(progressLog,
                             Rescaled(d.progress, 20 + channel * 20, Decimal(15, 100))
                                 \o <<IF channel' < Len(channels)
                                      THEN FromInt(20 + channel' * 20)
                                      ELSE FromInt(80)>>,
                             hasCallback)
    /\ channelLog' =
           channelLog
               \o <<ChannelEvent("decompose", name, 0, 0, 0),
                    ChannelEvent("reconstruct", name, c.retained, Len(d.result.sigma),
                                 c.summed)>>
    /\ UNCHANGED outcome

\* lines 546-565 with the result d of SVD.decompose of channel name
ChannelResume(d, name) ==
    /\ rng' = d.rng
    /\ lastSvd' = d.result
    /\ IF getCompressThrows(d.result)
       THEN /\ outcome' = [NoOutcome EXCEPT !.err = "TypeError"]
            /\ pc' = "thrown"
            /\ progressLog' = Report(progressLog,
                                     Rescaled(d.progress, 20 + channel * 20,
                                              Decimal(15, 100)),
                                     hasCallback)
            /\ channelLog' = Append(channelLog, ChannelEvent("decompose", name, 0, 0, 0))
            /\ UNCHANGED <<channel, compressedMatrices, totalRetainedValues,
                           totalSingularValues>>
       ELSE ChannelDone(d, name,
                        channelCompress(d.result, percentOf(compressionRatio),
                                        compressionMethod))
    /\ UNCHANGED <<svdVars, appVars, imageData, compressionRatio, compressionMethod, hasCallback,
                   seed, mse, type, matrices, store>>

\* one iteration of the loop of lines 535-565, from its await to the next one
RgbChannel ==
    /\ pc = "channel"
    /\ ChannelResume(decompose(matrices[channelSlot(channels[channel + 1])], rng),
                     channels[channel + 1])

\* lines 570-596: the continuation after the last await
RgbRecompose ==
    /\ pc = "recompose"
    /\ \E result \in {rgbOutcome(imageData, compressedMatrices, totalRetainedValues,
                                  totalSingularValues)} :
           /\ store' = storeAfter(store, result)
           /\ outcome' = outcomeStored(result, store')
    /\ imageData' = [imageData EXCEPT !.data = store'.buffers[store'.input]]
    /\ pc' = "returned"
    /\ progressLog' = Report(progressLog, <<FromInt(100)>>, hasCallback)
    /\ channelLog' = Append(channelLog, ChannelEvent("recompose", "rgb", 0, 0, 0))
    /\ UNCHANGED <<rng, svdVars, appVars, compressionRatio, compressionMethod, hasCallback, seed,
                   mse, type, matrices, channel, compressedMatrices, lastSvd,
                   totalRetainedValues, totalSingularValues>>

Next == CompressImage \/ GrayChannel \/ RgbChannel \/ RgbRecompose

Spec == Init /\ [][Next]_vars

TypeOK == pc \in {"idle", "gray", "channel", "recompose", "returned", "thrown"}

\* --------------------------------------------- ImageProcessor.calculateMSE, called directly
\* alpha values given to the second image
Alphas == {0, 128, 255}

\* the image with the alpha byte of every pixel set to alpha
WithAlpha(image, alpha) ==
    [image EXCEPT !.data = Array([idx \in 1..Len(image.data) |->
                                     IF idx % 4 = 0 THEN alpha ELSE image.data[idx]])]

InitMSE ==
    /\ rng = NoTape
    /\ imageData \in Images
    /\ seed = NoTape
    /\ channelLog = << >>
    /\ mse = NoMse
    /\ compressionRatio = 0
    /\ compressionMethod = "count"
    /\ hasCallback = FALSE
    /\ pc = "mse"
    /\ type = "none"
    /\ matrices = << >>
    /\ channel = 0
    /\ compressedMatrices = << >>
    /\ lastSvd = NoResult
    /\ totalRetainedValues = 0
    /\ totalSingularValues = 0
    /\ progressLog = << >>
    /\ outcome = NoOutcome
    /\ store = NoStore
    /\ SvdIdle
    /\ AppIdle

\* ImageProcessor.calculateMSE(imageData, other)
CalculateMSE ==
    /\ pc = "mse"
    /\ \E other \in Images \cup {WithAlpha(imageData, alpha) : alpha \in Alphas} :
           mse' = calculateMSE(imageData, other)
    /\ pc' = "measured"
    /\ UNCHANGED <<rng, svdVars, appVars, imageData, compressionRatio, compressionMethod, hasCallback,
                   seed, type, matrices, channel, compressedMatrices, lastSvd,
                   totalRetainedValues, totalSingularValues, progressLog, channelLog,
                   outcome, store>>

NextMSE == CalculateMSE

SpecMSE == InitMSE /\ [][NextMSE]_vars

TypeOKMSE == pc \in {"mse", "measured"} /\ mse.err \in {"pending", "none", "Error"}

\* ------------------------------------------------------------ ImageCompressorApp (app.js)
\* clicks on the compress button in one behaviour
MaxClicks == 2

\* the images a file can load: two colour images of one size, a colour image
\* of another size and a grayscale image
AppImages ==
    { MakeImage([r |-> "white", g |-> "zero", b |-> "checker", a |-> "white"], 1, 1),
      MakeImage([r |-> "diagonal", g |-> "white", b |-> "uniform", a |-> "uniform"], 2, 1),
      MakeImage([r |-> "uniform", g |-> "uniform", b |-> "uniform", a |-> "white"], 1, 1) }

\* what Math.random returns while the page is open
AppTapes == {Thousandths(<<123, 590, 397, 344, 231, 858, 25, 532>>)}

\* values of the compression slider
AppRatios == {50, 100}

InitApp ==
    /\ rng \in AppTapes
    /\ ImageIdle
    /\ SvdIdle
    /\ AppIdle

\* From the click on the compress button to the end of the finally block
\* (app.js lines 596-661) a compression is in flight.
InFlight == pc \in {"idle", "gray", "channel", "recompose", "returned", "thrown"}

\* The event loop can deliver an event: no JavaScript is running.  The call
\* of ImageProcessor.compressImage runs on from the click to its first await
\* (pc = "idle"), and the continuation of the await of line 607 runs in the
\* microtask that follows the settling of the promise (pc = "returned" or
\* "thrown").
EventLoopFree == pc \notin {"idle", "returned", "thrown"}

\* loadOriginalImage, app.js lines 546-588, called from img.onload once the
\* file chosen has been read and decoded
AppLoad ==
    /\ EventLoopFree
    /\ \E image \in AppImages :
           app' = [app EXCEPT !.originalImageData = image,
                              !.shown = FALSE,
                              !.chart = << >>]
    /\ UNCHANGED <<rng, svdVars, imageVars>>

\* A click on the reset button of the dashboard, app.js lines 454-456 and
\* 482-486
AppResetDashboard ==
    /\ EventLoopFree
    /\ app' = [app EXCEPT !.chart = << >>]
    /\ UNCHANGED <<rng, svdVars, imageVars>>

\* the compress button left disabled after a compression that failed
disabledAfterSuccessOnly(exit) == exit = "error"

\* app.js lines 657-661: the finally block re-enables the button and hides
\* the indicator on every exit
disabledAfter(exit) == FALSE

\* app.js lines 597-598: loading shown, compressBtn disabled
disabledAtStart(image) == TRUE

\* A click on the compress button, app.js lines 444-446 and 590-612: without
\* an image an alert and nothing else; with one, the indicator, the button
\* and the call of ImageProcessor.compressImage with the image loaded now.
\* A disabled button receives no click.
AppClick ==
    /\ EventLoopFree
    /\ ~app.disabled
    /\ app.clicks < MaxClicks
    /\ IF app.originalImageData = NoImage
       THEN /\ app' = [app EXCEPT !.clicks = @ + 1, !.exits = Append(@, "alert")]
            /\ UNCHANGED <<rng, svdVars, imageVars>>
       ELSE /\ app' = [app EXCEPT !.clicks = @ + 1,
                                  !.loading = TRUE,
                                  !.disabled = disabledAtStart(app.originalImageData),
                                  !.overlapped = @ \/ InFlight]
            /\ imageData' = app.originalImageData
            /\ compressionRatio' \in AppRatios
            /\ compressionMethod' \in Methods
            /\ hasCallback' = TRUE
            /\ seed' = rng
            /\ pc' = "idle"
            /\ type' = "none"
            /\ matrices' = << >>
            /\ channel' = 0
            /\ compressedMatrices' = << >>
            /\ lastSvd' = NoResult
            /\ totalRetainedValues' = 0
            /\ totalSingularValues' = 0
            /\ progressLog' = << >>
            /\ channelLog' = << >>
            /\ outcome' = NoOutcome
            /\ store' = StoreAtCall(app.originalImageData)
            /\ UNCHANGED <<rng, svdVars, mse>>

\* app.js lines 614-653 with the result of compressImage and m the outcome
\* of calculateMSE(this.originalImageData, result.imageData): the compressed
\* image is displayed first; an Error of calculateMSE leaves the statistics
\* and the chart as they were.
AppDisplayed(m) ==
    IF m.err # "none"
    THEN [app EXCEPT !.shown = TRUE, !.compressedOf = imageData]
    ELSE [app EXCEPT !.shown = TRUE,
                     !.compressedOf = imageData,
                     !.mse = [value |-> m.value, original |-> app.originalImageData,
                              source |-> imageData],
                     !.chart = Append(@, [source |-> imageData,
                                          original |-> app.originalImageData,
                                          compressionRatio |-> outcome.compressionRatio,
                                          mse |-> m.value])]

\* the try block left normally or through catch (lines 654-656), then the
\* finally block
AppExit(shown, exit) ==
    [shown EXCEPT !.exits = Append(@, exit),
                  !.loading = FALSE,
                  !.disabled = disabledAfter(exit)]

\* The continuation of compressImage of app.js after its await, lines 607-661
AppFinish ==
    /\ pc \in {"returned", "thrown"}
    /\ app' = IF pc = "thrown"
              THEN AppExit(app, "error")
              ELSE AppExit(AppDisplayed(calculateMSE(app.originalImageData,
                                                     outcome.imageData)),
                           IF calculateMSE(app.originalImageData,
                                           outcome.imageData).err = "none"
                           THEN "success" ELSE "error")
    /\ pc' = "off"
    /\ UNCHANGED <<rng, svdVars, imageData, compressionRatio, compressionMethod, hasCallback,
                   seed, type, matrices, channel, compressedMatrices, lastSvd,
                   totalRetainedValues, totalSingularValues, progressLog, channelLog,
                   outcome, store, mse>>

NextApp ==
    \/ AppLoad
    \/ AppResetDashboard
    \/ AppClick
    \/ CompressImage
    \/ GrayChannel
    \/ RgbChannel
    \/ RgbRecompose
    \/ AppFinish

SpecApp == InitApp /\ [][NextApp]_vars

TypeOKApp ==
    /\ pc \in {"off", "idle", "gray", "channel", "recompose", "returned", "thrown"}
    /\ app.clicks \in 0..MaxClicks
    /\ app.originalImageData \in AppImages \cup {NoImage}


\* ------------------------------------------------------------ properties of class SVD
Returned == stage \in {"decomposed", "reconstructed"} /\ svd.err = "none"

Reconstructed == stage = "reconstructed" /\ recon.err = "none"

Rows(M) == Len(M)

Cols(M) == IF M = << >> THEN 0 ELSE Len(M[1])

\* the reconstruction from the first count components, as lines 179-201 build it
Truncated(svdResult, count) ==
    Array([i \in 1..Len(svdResult.U) |-> Array([j \in 1..Len(svdResult.V_T[1]) |->
              Quantize(ComponentSum(svdResult, i, j, count))])])

\* C3: the singular values decompose returns are non-negative and sorted in
\* non-increasing order.
C3_SigmaSortedNonNegative ==
    Returned =>
        \A i \in 1..Len(svd.result.sigma) :
            /\ Ge(svd.result.sigma[i], Zero)
            /\ i < Len(svd.result.sigma) =>
                   Ge(svd.result.sigma[i], svd.result.sigma[i + 1])

\* decompose returned two distinct singular values whose eigenvalues the
\* solver had found smallest first
C3_Witness ==
    /\ Returned
    /\ Len(svd.result.sigma) >= 2
    /\ Lt(svd.values[1], svd.values[2])
    /\ Gt(svd.result.sigma[1], svd.result.sigma[2])

\* C4: every entry of a reconstructed matrix is an integer between 0 and 255.
C4_EntriesAreBytes ==
    Reconstructed =>
        \A i \in 1..Len(recon.matrix) : \A j \in 1..Len(recon.matrix[i]) :
            /\ IsInteger(recon.matrix[i][j])
            /\ Ge(recon.matrix[i][j], Zero)
            /\ Le(recon.matrix[i][j], FromInt(255))

\* a reconstruction one of whose sums of components lies above 255, and one
\* of whose sums is no integer
C4_Witness ==
    /\ Reconstructed
    /\ recon.policy = "sum"
    /\ \E i \in 1..Len(recon.matrix) : \E j \in 1..Len(recon.matrix[i]) :
          /\ Gt(ComponentSum(svd.result, i, j, recon.usedSingularValues), FromInt(255))
          /\ recon.matrix[i][j] = FromInt(255)
    /\ \E i \in 1..Len(recon.matrix) : \E j \in 1..Len(recon.matrix[i]) :
          ~IsInteger(ComponentSum(svd.result, i, j, recon.usedSingularValues))

\* max(1, ceil(product)) capped at len, for len >= 1: the K of 1..len that
\* reaches the product unless len does not, and that K - 1 does not reach
\* unless K is 1
CountOf(len, product) ==
    CHOOSE K \in 1..len :
        /\ K = len \/ Ge(FromInt(K), product)
        /\ K = 1 \/ Lt(FromInt(K - 1), product)

CountCapped(len, percent) == CountOf(len, Times(FromInt(len), percent))

\* C5: getCompressData sums exactly max(1, ceil(len(sigma) * percent))
\* components, capped at len(sigma): at least one even for percent 0.
C5_CountPolicySums ==
    (Reconstructed /\ recon.policy = "count") =>
        recon.matrix = Truncated(svd.result, CountCapped(Len(svd.result.sigma),
                                                         recon.percent))

\* getCompressData at percent 0 on two singular values: one component
\* summed, and the matrix is neither that of no component nor that of both
C5_Witness ==
    /\ Reconstructed
    /\ recon.policy = "count"
    /\ IsZero(recon.percent)
    /\ Len(svd.result.sigma) = 2
    /\ recon.matrix = Truncated(svd.result, 1)
    /\ recon.matrix # Truncated(svd.result, 0)
    /\ recon.matrix # Truncated(svd.result, 2)

\* C6: for percent >= 1 both policies use all len(sigma) components:
\* getCompressData sums them all, getCompressSum reports len(sigma).
C6_FullPercentUsesAll ==
    (Reconstructed /\ Ge(recon.percent, One)) =>
        /\ recon.matrix = Truncated(svd.result, Len(svd.result.sigma))
        /\ recon.policy = "sum" => recon.usedSingularValues = Len(svd.result.sigma)

\* getCompressData at a percent above 1 on two singular values: both summed,
\* and the last one changes the matrix
C6_Witness ==
    /\ Reconstructed
    /\ recon.policy = "count"
    /\ Gt(recon.percent, One)
    /\ Len(svd.result.sigma) = 2
    /\ recon.matrix = Truncated(svd.result, 2)
    /\ recon.matrix # Truncated(svd.result, 1)

\* sigma[1] + ... + sigma[k]
PrefixSum(sigma, k) == SumFrom(sigma, k)

\* the smallest k >= 1 whose prefix sum exceeds targetSum, or len(sigma)
SmallestCrossing(sigma, targetSum) ==
    IF \E k \in 1..Len(sigma) : Gt(PrefixSum(sigma, k), targetSum)
    THEN CHOOSE k \in 1..Len(sigma) :
             /\ Gt(PrefixSum(sigma, k), targetSum)
             /\ \A j \in 1..(k - 1) : Le(PrefixSum(sigma, j), targetSum)
    ELSE Len(sigma)

\* C7: getCompressSum returns as usedSingularValues the smallest k >= 1 whose
\* prefix sum of sigma exceeds percent * sum(sigma), or len(sigma) if none
\* does; the component that crosses the target is included, and the count
\* is the number of components summed into the matrix.
C7_SumPolicyCrossing ==
    (Reconstructed /\ recon.policy = "sum") =>
        /\ recon.usedSingularValues =
               SmallestCrossing(svd.result.sigma,
                                Times(SumSeq(svd.result.sigma), recon.percent))
        /\ recon.matrix = Truncated(svd.result, recon.usedSingularValues)

\* getCompressSum with a target between the first singular value and the
\* sum of both: the second one crosses it and is summed
C7_Witness ==
    /\ Reconstructed
    /\ recon.policy = "sum"
    /\ Len(svd.result.sigma) = 2
    /\ Le(svd.result.sigma[1], Times(SumSeq(svd.result.sigma), recon.percent))
    /\ Lt(Times(SumSeq(svd.result.sigma), recon.percent), SumSeq(svd.result.sigma))
    /\ recon.usedSingularValues = 2
    /\ recon.matrix # Truncated(svd.result, 1)

\* C8: the usedSingularValues of getCompressSum never decreases as percent
\* grows, for the same decomposition.
C8_UsedMonotone ==
    Returned =>
        \A p1 \in Percents : \A p2 \in Percents :
            Le(p1, p2) => usedSingularValues(svd.result.sigma, p1)
                            <= usedSingularValues(svd.result.sigma, p2)

\* a decomposition on which a larger percent uses more singular values
C8_Witness ==
    /\ Returned
    /\ \E p1 \in Percents : \E p2 \in Percents :
          /\ Lt(p1, p2)
          /\ usedSingularValues(svd.result.sigma, p1)
                 < usedSingularValues(svd.result.sigma, p2)

\* every row of M has the length of the first one, which is not 0
IsRectangular(M) ==
    /\ M # << >>
    /\ Len(M[1]) >= 1
    /\ \A i \in 1..Len(M) : Len(M[i]) = Len(M[1])

\* a zero matrix or an all-equal-value matrix
IsConstant(M) ==
    /\ IsRectangular(M)
    /\ \A i \in 1..Len(M) : \A j \in 1..Len(M[i]) : M[i][j] = M[1][1]

\* C2: decomposing and reconstructing a zero or all-equal-value matrix never
\* raises and yields a matrix of the input's shape with entries in [0,255].
C2_ConstantNeverRaises ==
    (stage \in {"decomposed", "reconstructed"} /\ IsConstant(matrix)) =>
        /\ svd.err = "none"
        /\ stage = "reconstructed" =>
               /\ recon.err = "none"
               /\ Rows(recon.matrix) = Rows(matrix)
               /\ Cols(recon.matrix) = Cols(matrix)
               /\ \A i \in 1..Len(recon.matrix) : \A j \in 1..Len(recon.matrix[i]) :
                      /\ Ge(recon.matrix[i][j], Zero)
                      /\ Le(recon.matrix[i][j], FromInt(255))

\* the largest difference the round trip is allowed
RoundTripTolerance == FromInt(5)

\* C9: when the solver returned min(m, n) singular values,
\* getCompressData(decompose(A), 1.0) is A within a small tolerance.
C9_RoundTrip ==
    (/\ Reconstructed
     /\ recon.policy = "count"
     /\ recon.percent = One
     /\ IsRectangular(matrix)
     /\ Len(svd.result.sigma) = IntMin(Rows(matrix), Cols(matrix))) =>
        /\ Rows(recon.matrix) = Rows(matrix)
        /\ Cols(recon.matrix) = Cols(matrix)
        /\ \A i \in 1..Len(matrix) : \A j \in 1..Len(matrix[i]) :
               Le(Abs(Minus(recon.matrix[i][j], matrix[i][j])), RoundTripTolerance)

\* C10: decompose fails with DimensionMismatch on an empty or ragged matrix.
C10_MalformedRejected ==
    (stage \in {"decomposed", "reconstructed"} /\ ~IsRectangular(matrix)) =>
        svd.err = "DimensionMismatch"

\* ------------------------------------------------------------ properties of compressImage
Settled == pc \in {"returned", "thrown"}

\* C1: for every non-empty image, every retention value in 0..100 and either
\* policy, compressImage completes without raising and returns a pixel buffer
\* of the input's width and height with the retained and total counts.
C1_CompressImageCompletes ==
    Settled =>
        /\ outcome.err = "none"
        /\ outcome.imageData.width = imageData.width
        /\ outcome.imageData.height = imageData.height
        /\ Len(outcome.imageData.data) = 4 * imageData.width * imageData.height
        /\ outcome.retainedSingularValues \in Nat
        /\ outcome.totalSingularValues \in Nat

\* ------------------------------------------------------------ properties of the helpers
Called(op) == stage = "called" /\ call.op = op

\* C11: multiplyMatrices fails with DimensionMismatch whenever A.cols is not
\* B.rows, and multiplyMatrixVector whenever A.cols is not len(v); neither
\* returns a value.
C11_MismatchRejected ==
    /\ (/\ Called("multiplyMatrices")
        /\ IsRectangular(call.A)
        /\ Cols(call.A) # Rows(call.B)) => call.err = "DimensionMismatch"
    /\ (/\ Called("multiplyMatrixVector")
        /\ IsRectangular(call.A)
        /\ Cols(call.A) # Len(call.v)) => call.err = "DimensionMismatch"

\* the injective maps from 1..len to 1..len
Orderings(len) ==
    {f \in [1..len -> 1..len] : \A i \in 1..len : \A j \in 1..len : f[i] = f[j] => i = j}

\* C12: the result of decompose on an m x n matrix is index-aligned: U has m
\* rows of min(m,n) entries, V_T has len(sigma) <= min(m,n) rows of n
\* entries, row i of V_T is the eigenvector whose eigenvalue gave sigma[i],
\* column i of U is A * V_T[i] / sigma[i], and the columns of U beyond
\* len(sigma) are zero.
C12_IndexAligned ==
    (Returned /\ IsRectangular(matrix)) =>
        /\ Len(svd.result.U) = Rows(matrix)
        /\ \A r \in 1..Len(svd.result.U) :
               Len(svd.result.U[r]) = IntMin(Rows(matrix), Cols(matrix))
        /\ Len(svd.result.V_T) = Len(svd.result.sigma)
        /\ Len(svd.result.sigma) <= IntMin(Rows(matrix), Cols(matrix))
        /\ \A i \in 1..Len(svd.result.V_T) : Len(svd.result.V_T[i]) = Cols(matrix)
        /\ \E f \in Orderings(Len(svd.result.sigma)) :
               \A i \in 1..Len(svd.result.sigma) :
                   /\ svd.result.sigma[i] = Sqrt(MaxOf(Zero, svd.values[f[i]]))
                   /\ svd.result.V_T[i] = svd.vectors[f[i]]
        /\ \A r \in 1..Rows(matrix) : \A i \in 1..IntMin(Rows(matrix), Cols(matrix)) :
               IF i <= Len(svd.result.sigma) /\ Gt(svd.result.sigma[i], Zero)
               THEN svd.result.U[r][i] =
                        Over(RowDot(matrix, svd.result.V_T[i], r, Cols(matrix)),
                             svd.result.sigma[i])
               ELSE svd.result.U[r][i] = Zero

\* a 2 x 2 matrix with one singular value: the first column of U belongs
\* to it, the second one is the padding
C12_Witness ==
    /\ Returned
    /\ IsRectangular(matrix)
    /\ IntMin(Rows(matrix), Cols(matrix)) = 2
    /\ Len(svd.result.sigma) = 1
    /\ \E r \in 1..Rows(matrix) : ~IsZero(svd.result.U[r][1])
    /\ \A r \in 1..Rows(matrix) : svd.result.U[r][2] = Zero

\* C13: decompose and eigenDecomposition leave the matrix passed in as it
\* was: the deflation works on a private copy.
C13_ArgumentUnchanged ==
    /\ Returned => svd.argument = matrix
    /\ Called("eigenDecomposition") => call.argument = call.A

\* eigenDecomposition found a pair and deflated its working matrix
C13_Witness ==
    /\ Called("eigenDecomposition")
    /\ Len(call.values) >= 1
    /\ call.work # call.A
    /\ call.argument = call.A

\* the event and channel of every entry of channelLog
EventNames(log) == [i \in 1..Len(log) |-> <<log[i].event, log[i].channel>>]

RgbOrder ==
    << <<"decompose", "r">>, <<"reconstruct", "r">>,
       <<"decompose", "g">>, <<"reconstruct", "g">>,
       <<"decompose", "b">>, <<"reconstruct", "b">>,
       <<"recompose", "rgb">> >>

\* C15: in a colour compression the channels are decomposed and reconstructed
\* one after another in the order R, G, B, and the output is recomposed only
\* after all three are reconstructed.
C15_ChannelsInOrder ==
    type = "rgb" =>
        /\ Len(channelLog) <= Len(RgbOrder)
        /\ EventNames(channelLog) = SubSeq(RgbOrder, 1, Len(channelLog))
        /\ pc = "channel" => Len(channelLog) = 2 * channel
        /\ pc \in {"recompose", "returned"} => Len(channelLog) >= 6
        /\ pc = "returned" => channelLog[Len(channelLog)].event = "recompose"

\* a colour compression that returned, after the seven events
C15_Witness ==
    /\ type = "rgb"
    /\ pc = "returned"
    /\ Len(channelLog) = 7

\* C16: every progress value passed to the progress callback is an integer
\* in [0,100].
C16_ProgressIntegers ==
    \A i \in 1..Len(progressLog) :
        /\ IsInteger(progressLog[i])
        /\ Ge(progressLog[i], Zero)
        /\ Le(progressLog[i], FromInt(100))

\* compressImage with every progress report erased, computed in one step from
\* its arguments and the values of Math.random: err and rng after the channels
\* taken so far, their reconstructions, the two totals and the events passed
SilentStart(seed0) ==
    [err |-> "none", rng |-> seed0,
     compressed |-> Array([k \in 1..Len(channels) |-> << >>]),
     retained |-> 0, total |-> 0, path |-> << >>]

SilentDone(acc, d, name, c) ==
    [err |-> "none",
     rng |-> d.rng,
     compressed |-> [acc.compressed EXCEPT ![channelSlot(name)] = c.matrix],
     retained |-> acc.retained + c.retained,
     total |-> acc.total + Len(d.result.sigma),
     path |-> acc.path \o << <<"decompose", name>>, <<"reconstruct", name>> >>]

SilentResume(acc, d, name, ratio, method) ==
    IF getCompressThrows(d.result)
    THEN [acc EXCEPT !.err = "TypeError", !.rng = d.rng,
                     !.path = Append(acc.path, <<"decompose", name>>)]
    ELSE SilentDone(acc, d, name, channelCompress(d.result, percentOf(ratio), method))

SilentChannel(acc, name, image, ratio, method) ==
    IF acc.err # "none" THEN acc
    ELSE SilentResume(acc,
                      decompose(imageToMatrix(image).matrices[channelSlot(name)], acc.rng),
                      name, ratio, method)

SilentRgbEnd(acc, image) ==
    IF acc.err # "none"
    THEN [outcome |-> [NoOutcome EXCEPT !.err = acc.err], rng |-> acc.rng, path |-> acc.path]
    ELSE [outcome |-> rgbOutcome(image, acc.compressed, acc.retained, acc.total),
          rng |-> acc.rng,
          path |-> Append(acc.path, <<"recompose", "rgb">>)]

SilentGray(d, image, ratio, method) ==
    [outcome |-> grayOutcome(d, image, ratio, method), rng |-> d.rng, path |-> << >>]

SilentRun(image, ratio, method, seed0) ==
    IF imageToMatrix(image).type = "grayscale"
    THEN SilentGray(decompose(imageToMatrix(image).matrices[1], seed0), image, ratio, method)
    ELSE SilentRgbEnd(
             SilentChannel(
                 SilentChannel(
                     SilentChannel(SilentStart(seed0), "r", image, ratio, method),
                     "g", image, ratio, method),
                 "b", image, ratio, method),
             image)

SameAsSilent(run) ==
    /\ outcome = run.outcome
    /\ rng = run.rng
    /\ EventNames(channelLog) = run.path
    /\ pc = IF run.outcome.err = "none" THEN "returned" ELSE "thrown"

\* a call of compressImage that has not settled yet
CallInProgress == pc \in {"idle", "gray", "channel", "recompose"}

\* the step leaves the bytes of the buffer passed in, and the imageData the
\* caller reads from it, as they are
InputKept ==
    /\ store'.input = store.input
    /\ store'.buffers[store.input] = store.buffers[store.input]
    /\ imageData' = imageData

\* the step returns an ImageData whose bytes are in a buffer that did not
\* exist before the step
OutputFresh ==
    /\ store'.output \notin 1..Len(store.buffers)
    /\ store'.output \in 1..Len(store'.buffers)
    /\ store'.output # store'.input
    /\ outcome'.imageData.data = store'.buffers[store'.output]

\* the call settled as run does: the same call made with nothing before it
AsCalledAlone(run) ==
    /\ outcome = run.outcome
    /\ rng = run.rng

\* C14: compressImage leaves the pixel buffer passed in unchanged and keeps
\* no state between calls: no step of a call changes a byte of
\* imageData.data, the image returned has its bytes in a buffer created by
\* the call, and every call, the first or a later one, settles as the same
\* call made alone does.
C14_InputBufferUnchanged ==
    /\ [][CallInProgress => InputKept]_vars
    /\ [][(CallInProgress /\ pc' = "returned") => OutputFresh]_vars
    /\ [](Settled => AsCalledAlone(SilentRun(imageData, compressionRatio,
                                             compressionMethod, seed)))

\* a second compression, made after one that succeeded, returned: its output
\* is in another buffer than its input and has other bytes, and the input
\* has the bytes of the image loaded
C14_Witness ==
    /\ pc = "returned"
    /\ app.clicks = 2
    /\ app.exits = <<"success">>
    /\ store.output # store.input
    /\ store.buffers[store.output] = outcome.imageData.data
    /\ store.buffers[store.input] = imageData.data
    /\ store.buffers[store.output] # store.buffers[store.input]

\* C17: progress reporting is purely observational: with a callback or with
\* null, a finished compressImage has the result, the error, the consumption
\* of Math.random and the sequence of channel events of the same call with
\* every progress report erased.
C17_ProgressObservational ==
    Settled => SameAsSilent(SilentRun(imageData, compressionRatio, compressionMethod, seed))

\* a colour compression that returned after reporting progress to a callback
C17_Witness ==
    /\ pc = "returned"
    /\ type = "rgb"
    /\ hasCallback
    /\ Len(progressLog) > 3
    /\ outcome.imageData.data # imageData.data


\* C18: the reported data compression ratio is
\* (rows * cols) / (k * (rows + cols + 1)) to 2 decimal places, k the
\* reported retained count, and is a finite number.
C18_RatioFinite ==
    pc = "returned" =>
        LET k == outcome.retainedSingularValues
            d == k * (imageData.height + imageData.width + 1)
            n == imageData.height * imageData.width
        IN  /\ outcome.compressionRatio.finite
            /\ ~outcome.compressionRatio.negative
            /\ d > 0
            /\ 2 * Distance(outcome.compressionRatio.hundredths * d, 100 * n) <= d

\* the integer nearest to total / 3
NearestThird(total) ==
    CHOOSE k \in 0..total : 6 * k - 3 <= 2 * total /\ 2 * total < 6 * k + 3

\* C19: for a colour image the reported retained and total counts are the
\* per-channel values averaged over the three channels and rounded to the
\* nearest integer.
C19_AveragedCounts ==
    (pc = "returned" /\ type = "rgb") =>
        /\ outcome.retainedSingularValues =
               NearestThird(channelLog[2].retained + channelLog[4].retained
                            + channelLog[6].retained)
        /\ outcome.totalSingularValues =
               NearestThird(channelLog[2].total + channelLog[4].total
                            + channelLog[6].total)

\* a colour compression whose three retained counts sum to 2 more than a
\* multiple of 3, so that the average is rounded up
C19_Witness ==
    /\ pc = "returned"
    /\ type = "rgb"
    /\ (channelLog[2].retained + channelLog[4].retained + channelLog[6].retained) % 3 = 2

\* the red, green and blue bytes of two images are the same
SameColours(a, b) ==
    /\ Len(a.data) = Len(b.data)
    /\ \A idx \in 1..Len(a.data) : idx % 4 # 0 => a.data[idx] = b.data[idx]

\* C20: calculateMSE of an image and itself is exactly 0, and so is
\* calculateMSE of two buffers that differ only in alpha bytes.
C20_MseIgnoresAlpha ==
    (pc = "measured" /\ SameColours(imageData, mse.other)) =>
        /\ mse.err = "none"
        /\ mse.sumSquaredDiff = 0
        /\ mse.pixelCount > 0
        /\ mse.value = Zero

\* calculateMSE of two buffers with the same colours and different alpha
\* bytes returned 0
C20_Witness ==
    /\ pc = "measured"
    /\ SameColours(imageData, mse.other)
    /\ mse.other.data # imageData.data
    /\ mse.err = "none"
    /\ mse.value = Zero

\* ------------------------------------------------------------ further properties
\* the alpha bytes of an image, pixel by pixel
AlphaBytes(image) == [i \in 1..(Len(image.data) \div 4) |-> image.data[4 * i]]

\* C21: every pixel of the buffer compressImage returns has alpha 255,
\* whatever the alpha of the input pixel.
C21_OutputOpaque ==
    pc = "returned" =>
        /\ Len(outcome.imageData.data) = 4 * imageData.width * imageData.height
        /\ \A i \in 1..Len(AlphaBytes(outcome.imageData)) :
               AlphaBytes(outcome.imageData)[i] = 255

\* a returned compression of an image none of whose pixels is opaque
C21_Witness ==
    /\ pc = "returned"
    /\ \A i \in 1..Len(AlphaBytes(imageData)) : AlphaBytes(imageData)[i] < 255
    /\ \A i \in 1..Len(AlphaBytes(outcome.imageData)) :
           AlphaBytes(outcome.imageData)[i] = 255

\* the 1 x 1 matrix [[x]]
Scalar(x) == << <<x>> >>

\* C22: decomposing [[200]] yields sigma = [200] with U and V_T equal to
\* [[1]] or [[-1]] with matching signs, and both getCompressData and
\* getCompressSum at any percent > 0 return [[200]].
C22_ScalarMatrix ==
    (matrix = Scalar(FromInt(200)) /\ stage \in {"decomposed", "reconstructed"}) =>
        /\ svd.err = "none"
        /\ svd.result.sigma = <<FromInt(200)>>
        /\ svd.result.U \in {Scalar(One), Scalar(Neg(One))}
        /\ svd.result.V_T = svd.result.U
        /\ (stage = "reconstructed" /\ Gt(recon.percent, Zero)) =>
               /\ recon.err = "none"
               /\ recon.matrix = Scalar(FromInt(200))

\* the power iteration of an index ended with a pair to emit (line 142)
Passed(attempt, tolerance) ==
    attempt.converged /\ ~Lt(Abs(attempt.lambda), tolerance)

\* C23: eigenDecomposition stops at the first index whose power iteration
\* does not converge within maxIterations or whose |lambda| < tolerance: it
\* emits no pair for that index or a later one, returns the pairs found so
\* far without raising, and never returns more than maxEigenvalues pairs.
C23_StopsAtFirstFailure ==
    Called("eigenDecomposition") =>
        /\ call.err = "none"
        /\ Len(call.values) <= call.maxEigenvalues
        /\ Len(call.vectors) = Len(call.values)
        /\ Len(call.attempts) <= call.maxEigenvalues
        /\ Len(call.attempts) \in {Len(call.values), Len(call.values) + 1}
        /\ \A i \in 1..Len(call.attempts) :
               /\ call.attempts[i].iterations <= maxIterations
               /\ IF i <= Len(call.values)
                  THEN /\ Passed(call.attempts[i], call.tolerance)
                       /\ call.values[i] = call.attempts[i].lambda
                  ELSE ~Passed(call.attempts[i], call.tolerance)
        /\ Len(call.attempts) = Len(call.values) =>
               Len(call.values) = call.maxEigenvalues

\* a call allowed two pairs that emitted the first and stopped at the second index
C23_Witness ==
    /\ Called("eigenDecomposition")
    /\ call.maxEigenvalues >= 2
    /\ Len(call.values) = 1
    /\ Len(call.attempts) = 2
    /\ ~Passed(call.attempts[2], call.tolerance)

\* the initial vector drawn for an index has norm below tolerance
ShortDraw(attempt, tolerance) == Lt(Norm(attempt.random), tolerance)

\* the index was the last one tried and emitted no pair
EndedAt(i) ==
    /\ i = Len(call.attempts)
    /\ Len(call.values) = i - 1
    /\ Len(call.vectors) = i - 1

\* C24 as stated: when the initial vector has norm below tolerance,
\* normalization is skipped, no eigenpair is emitted for that slot and the
\* loop ends for all remaining slots.
C24_ShortDrawEndsLoop ==
    Called("eigenDecomposition") =>
        \A i \in 1..Len(call.attempts) :
            ShortDraw(call.attempts[i], call.tolerance) =>
                /\ call.attempts[i].start = call.attempts[i].random
                /\ EndedAt(i)

\* C24 amended: when the initial vector has norm below tolerance,
\* normalization is skipped; when moreover the product of the working matrix
\* and that vector has norm below tolerance, the inner loop is left in its
\* first pass, no eigenpair is emitted for that slot and the loop ends for
\* all remaining slots.
C24_ShortProductEndsLoop ==
    Called("eigenDecomposition") =>
        \A i \in 1..Len(call.attempts) :
            ShortDraw(call.attempts[i], call.tolerance) =>
                /\ call.attempts[i].start = call.attempts[i].random
                /\ Lt(Norm(multiplyMatrixVector(call.attempts[i].A,
                                                call.attempts[i].random)),
                      call.tolerance) =>
                       /\ call.attempts[i].iterations = 1
                       /\ ~call.attempts[i].converged
                       /\ EndedAt(i)

\* a call allowed two pairs on a matrix that is not zero, whose first draw
\* was short and not the zero vector and had a product that is short and not
\* the zero vector, and that ended at the first index
C24_Witness ==
    /\ Called("eigenDecomposition")
    /\ call.maxEigenvalues = 2
    /\ ~IsConstant(call.A)
    /\ ShortDraw(call.attempts[1], call.tolerance)
    /\ Gt(Norm(call.attempts[1].random), Zero)
    /\ Lt(Norm(multiplyMatrixVector(call.A, call.attempts[1].random)), call.tolerance)
    /\ Gt(Norm(multiplyMatrixVector(call.A, call.attempts[1].random)), Zero)
    /\ call.attempts[1].start = call.attempts[1].random
    /\ call.attempts[1].iterations = 1
    /\ EndedAt(1)

\* column i of the matrix U
ColumnOf(U, i) == Array([r \in 1..Len(U) |-> U[r][i]])

\* the vector v scaled to unit Euclidean length
UnitVector(v) == Array([r \in 1..Len(v) |-> Over(v[r], Norm(v))])

\* the two vectors agree entry by entry within 0.01
CloseVectors(u, v) ==
    /\ Len(u) = Len(v)
    /\ \A r \in 1..Len(u) : Le(Abs(Minus(u[r], v[r])), Decimal(1, 100))

\* C25: in the result of decompose, column i of U is the zero vector when
\* sigma[i] <= tolerance or no i-th singular value was returned, and
\* otherwise (A * v_i) / sigma[i] normalized to unit Euclidean length.
C25_UColumnsUnit ==
    (Returned /\ IsRectangular(matrix)) =>
        \A i \in 1..IntMin(Rows(matrix), Cols(matrix)) :
            IF i <= Len(svd.result.sigma)
               /\ Gt(svd.result.sigma[i], toleranceFor(FALSE))
            THEN CloseVectors(ColumnOf(svd.result.U, i),
                              UnitVector(multiplyMatrixVector(matrix, svd.result.V_T[i])))
            ELSE \A r \in 1..Rows(matrix) : svd.result.U[r][i] = Zero

RECURSIVE PassesRun(_)
\* the passes of the inner loop run by a sequence of attempts
PassesRun(attempts) ==
    IF attempts = << >> THEN 0
    ELSE Head(attempts).iterations + PassesRun(Tail(attempts))

\* the cap of lines 22-23 on the eigenpairs of a matrix below 100000 entries
EigenCap(M) == IntMin(IntMin(Rows(M), Cols(M)), 100)

\* C26: decompose always terminates: each of its two eigen-decompositions
\* tries at most maxEigenvalues indices of at most maxIterations passes each,
\* at most maxEigenvalues * maxIterations passes in all, and then decompose
\* returns, whether or not the iteration converged.
C26_BoundedWork ==
    (stage \in {"decomposed", "reconstructed"} /\ IsRectangular(matrix)) =>
        /\ svd.err = "none"
        /\ \A e \in 1..2 :
               /\ Len(svd.attempts[e]) <= EigenCap(matrix)
               /\ \A i \in 1..Len(svd.attempts[e]) :
                      svd.attempts[e][i].iterations <= maxIterations
               /\ PassesRun(svd.attempts[e]) <= EigenCap(matrix) * maxIterations
        /\ svd.steps = PassesRun(svd.attempts[1]) + PassesRun(svd.attempts[2])

\* a decomposition that returned after a power iteration used all its passes
\* without converging
C26_Witness ==
    /\ Returned
    /\ IsRectangular(matrix)
    /\ \E e \in 1..2 : \E i \in 1..Len(svd.attempts[e]) :
           /\ svd.attempts[e][i].iterations = maxIterations
           /\ ~svd.attempts[e][i].converged

\* C27: under the count policy the retained count compressImage reports for
\* a channel is the number of components getCompressData summed for that
\* channel, for every retention value in [0,100] including 0.
C27_ReportedIsSummed ==
    compressionMethod = "count" =>
        \A i \in 1..Len(channelLog) :
            channelLog[i].event = "reconstruct" =>
                channelLog[i].retained = channelLog[i].summed

\* C28: during one run of compressImage the progress values passed to the
\* callback are non-decreasing, and when the run completes the last value
\* reported is 100.
C28_ProgressMonotone ==
    /\ \A i \in 1..Len(progressLog) : \A j \in i..Len(progressLog) :
           Le(progressLog[i], progressLog[j])
    /\ (pc = "returned" /\ hasCallback) =>
           /\ progressLog # << >>
           /\ progressLog[Len(progressLog)] = FromInt(100)

\* a colour compression that returned after reporting the progress of its
\* three channels, from 5 to 100
C28_Witness ==
    /\ pc = "returned"
    /\ type = "rgb"
    /\ hasCallback
    /\ Len(progressLog) >= 20
    /\ progressLog[1] = FromInt(5)
    /\ progressLog[Len(progressLog)] = FromInt(100)

\* C29: the compress button is disabled and the loading indicator shown
\* exactly while a compression is in flight: no click starts a second
\* compression before the first has ended, and after every exit, success
\* or error, the button is enabled again and the indicator hidden.
C29_ButtonGuardsFlight ==
    /\ app.disabled <=> InFlight
    /\ app.loading <=> InFlight
    /\ ~app.overlapped

\* two compressions ran one after the other, one ended in an error and one
\* in success, and the button is enabled again
C29_Witness ==
    /\ pc = "off"
    /\ ~app.disabled
    /\ ~app.loading
    /\ Len(app.exits) = 2
    /\ \E i, j \in 1..2 : app.exits[i] = "error" /\ app.exits[j] = "success"

\* C30: every displayed result belongs to the image loaded now: the MSE
\* shown and every chart point were computed from the current
\* originalImageData and its own compression.
C30_ResultsOfCurrentImage ==
    /\ app.shown =>
           /\ app.compressedOf = app.originalImageData
           /\ app.mse.original = app.originalImageData
           /\ app.mse.source = app.originalImageData
    /\ \A i \in 1..Len(app.chart) :
           /\ app.chart[i].original = app.originalImageData
           /\ app.chart[i].source = app.originalImageData


====
